---- MODULE Spec2Model ----
(***************************************************************************)
(* Model of the HelmRelease reconciler of helm-controller                  *)
(* (internal/controller/helmrelease_controller.go).                        *)
(*                                                                         *)
(* One Reconcile call is one atomic step: the control loop serialises the  *)
(* passes of one release, and a pass works on the snapshot it fetched.     *)
(* The outcomes of the collaborator calls made during a pass (API reads,   *)
(* chart loading, Helm actions, the status patch) are inputs of the step,  *)
(* drawn from Envs.                                                        *)
(***************************************************************************)
EXTENDS Integers, Sequences, FiniteSets, TLC

\* ------------------------------------------------------------------ bounds
\* Number of edits of the HelmRelease spec in one behaviour.
MaxEdits == 1
\* Capacity of the release history kept in the status.
HistoryCap == 1
\* Longest dependency list drawn when checkDependencies is checked alone.
MaxDeps == 2
\* Attempts inserted, and largest capacity, when the history store is checked
\* alone.
MaxInserts == 4
MaxCap == 3
\* Log calls made, and largest size asked for, when the log buffer is checked
\* alone.
MaxCalls == 6
MaxSize == 3
\* HelmReleases in the cluster when the HelmChart watch is checked alone.
MaxReleases == 2

\* ---------------------------------------------------------------- universe
Namespace == "default"             \* namespace of the HelmRelease object
DepNamespaces == {"", "other"}     \* "" = unset: defaults to Namespace
DepNames == {"a", "b"}
DepRefs == [namespace : DepNamespaces, name : DepNames]
DepKeys == {Namespace, "other"} \X DepNames
\* A dependency object as the API server returns it.
ReadyDep == [generation |-> 1, observedGeneration |-> 1, ready |-> TRUE]
StaleDep == [generation |-> 2, observedGeneration |-> 1, ready |-> TRUE]
NotReadyDep == [generation |-> 1, observedGeneration |-> 1, ready |-> FALSE]
DepObjects == {ReadyDep, StaleDep, NotReadyDep}

VARIABLES
    hr,        \* the HelmRelease object's metadata and spec, as stored
    chart,     \* the chart the release's HelmChart artifact holds: name, version
    status,    \* the persisted status of the HelmRelease
    pass,      \* what the pass that has just returned did (NoPass after an event)
    edits,     \* cluster events so far
    gate,      \* input and output of checkDependencies when checked alone
    store,     \* a history store when checked alone: capacity, inserted, kept
    buf,       \* a LogBuffer when checked alone: ring, position, calls made
    watch      \* the HelmChart watch when checked alone: releases, event, requests

vars == <<hr, chart, status, pass, edits, gate, store, buf, watch>>

\* -------------------------------------------------------- dependency gate
NoErr == [kind |-> "none", ref |-> <<"", "">>]

\* The NamespacedName a dependency refers to (lines 469-475).
DependencyRef(d, ns) ==
    <<IF d.namespace = "" THEN ns ELSE d.namespace, d.name>>

\* The generation test misses: a stale dependency counts as ready.
DependencyReadyIgnoringGeneration(dHr) ==
    dHr.ready

\* Line 482, negated: observed at its latest generation and Ready is true.
DependencyReady(dHr) ==
    dHr.generation = dHr.observedGeneration /\ dHr.ready

RECURSIVE checkDependenciesFrom(_, _, _, _, _)
checkDependenciesFrom(i, dependsOn, ns, objects, unreachable) ==
    IF i > Len(dependsOn) THEN NoErr
    ELSE LET ref == DependencyRef(dependsOn[i], ns)
         IN  IF ref \in unreachable \/ ref \notin DOMAIN objects
             THEN [kind |-> "get", ref |-> ref]
             ELSE IF ~DependencyReady(objects[ref])
             THEN [kind |-> "notReady", ref |-> ref]
             ELSE checkDependenciesFrom(i + 1, dependsOn, ns, objects, unreachable)

\* checkDependencies: the first dependency that cannot be fetched (missing, or
\* the read fails: unreachable) or is not ready, or NoErr.
checkDependencies(dependsOn, ns, objects, unreachable) ==
    checkDependenciesFrom(1, dependsOn, ns, objects, unreachable)

\* ------------------------------------------------------------------ status
TargetNamespaces == {"", "prod"}   \* spec.targetNamespace, "" = unset
ValuesSet == {"v1", "v2"}
Strategies == {"rollback", "uninstall", "none"}

\* chartutil.DigestValues: the digest of the composed values.
DigestValues(values) ==
    CASE values = "v1" -> "sha256:d1"
      [] values = "v2" -> "sha256:d2"
      [] OTHER -> "sha256:0"

NoCurrent ==
    [namespace |-> "", name |-> "", chartName |-> "", version |-> "", digest |-> ""]

\* The status fields the reconciler reads back in a later pass.
EmptyStatus ==
    [history |-> <<>>, current |-> NoCurrent,
     installFailures |-> 0, upgradeFailures |-> 0, failures |-> 0,
     lastAttemptedRevision |-> "", lastAttemptedConfigDigest |-> "",
     storageNamespace |-> ""]

\* The status fields the reconciler only writes: the Ready, Stalled and
\* Reconciling conditions and lastAttemptedGeneration. A pass is modelled with
\* what it does to them, "kept" where it leaves them as they were.
NoMarks ==
    [ready |-> "kept", stalled |-> "kept", reconciling |-> "kept",
     lastAttemptedGeneration |-> "kept"]

\* The object a pass works on: the fetched status and the marks so far.
Obj(st) == [status |-> st, marks |-> NoMarks]

\* conditions.MarkFalse(obj, meta.ReadyCondition, reason, ...): the status of
\* the Ready condition is modelled, its reason and message are not.
MarkFalse(o, reason) == [o EXCEPT !.marks.ready = "False"]
\* conditions.MarkTrue(obj, meta.ReadyCondition, ...)
MarkTrue(o) == [o EXCEPT !.marks.ready = "True"]
\* conditions.MarkReconciling: sets Reconciling, removes Stalled.
MarkReconciling(o) == [o EXCEPT !.marks.reconciling = "True", !.marks.stalled = "removed"]
\* conditions.MarkStalled: sets Stalled, removes Reconciling.
MarkStalled(o) == [o EXCEPT !.marks.stalled = "True", !.marks.reconciling = "removed"]

\* obj.GetReleaseNamespace(): the target namespace, or the object's own.
GetReleaseNamespace(r) ==
    IF r.targetNamespace = "" THEN Namespace ELSE r.targetNamespace
\* obj.GetStorageNamespace(): the release namespace unless set otherwise.
GetStorageNamespace(r) == GetReleaseNamespace(r)
\* obj.GetReleaseName()
GetReleaseName(r) == r.releaseName

\* The deployment the spec, the loaded chart and the values ask for.
Desired(r, ch) ==
    [namespace |-> GetReleaseNamespace(r), name |-> GetReleaseName(r),
     chartName |-> ch.name, version |-> ch.version,
     digest |-> DigestValues(r.values)]

TargetOf(d) == <<d.namespace, d.name, d.chartName>>

\* action.ReleaseTargetChanged: a current deployment is recorded and its
\* target identity (namespace, name, chart name) is not the desired one.
ReleaseTargetChanged(st, r, chartName) ==
    /\ st.current # NoCurrent
    /\ TargetOf(st.current) # <<GetReleaseNamespace(r), GetReleaseName(r), chartName>>

\* action.MustResetFailures: the pair differs from the last attempted pair.
MustResetFailures(st, version, digest) ==
    \/ version # st.lastAttemptedRevision
    \/ digest # st.lastAttemptedConfigDigest

\* --------------------------------------------------------- history store
Attempt(kind, outcome, d) ==
    [kind |-> kind, outcome |-> outcome, version |-> d.version, digest |-> d.digest]

\* The newest entry is dropped once the store is full.
RecordWithinKeepsOldest(history, a, cap) ==
    IF Len(history) >= cap THEN history ELSE Append(history, a)

\* Append with eviction of the oldest entry once the capacity is exceeded.
RecordWithin(history, a, cap) ==
    LET h == Append(history, a)
    IN  IF Len(h) > cap THEN SubSeq(h, Len(h) - cap + 1, Len(h)) ELSE h

\* The history of a release status has capacity HistoryCap.
Record(history, a) == RecordWithin(history, a, HistoryCap)

Latest(history) == history[Len(history)]
LastIs(st, kind, outcome) ==
    /\ Len(st.history) > 0
    /\ Latest(st.history).kind = kind
    /\ Latest(st.history).outcome = outcome
LastFailed(st) ==
    Len(st.history) > 0 /\ Latest(st.history).outcome = "failed"

\* ------------------------------------------------ Helm actions and engine
\* The outcome of one deployment action is an input: "ok", "fail", or
\* "cancelled" when the context ends while the action runs.

\* Install or upgrade: success advances the current deployment; failure is
\* recorded and counted against the action's own budget and the total.
Deploy(o, kind, d, outcome) ==
    IF outcome = "ok"
    THEN [MarkTrue(o) EXCEPT !.marks.reconciling = "removed",
              !.status.current = d,
              !.status.history = Record(@, Attempt(kind, "succeeded", d))]
    ELSE [MarkFalse(o, IF kind = "install" THEN "InstallFailed" ELSE "UpgradeFailed")
             EXCEPT !.status.history = Record(@, Attempt(kind, "failed", d)),
                    !.status.failures = @ + 1,
                    !.status.installFailures = IF kind = "install" THEN @ + 1 ELSE @,
                    !.status.upgradeFailures = IF kind = "upgrade" THEN @ + 1 ELSE @]

\* Rollback to the last successful deployment; never counted as a failure.
Rollback(o, outcome) ==
    IF outcome = "ok"
    THEN [MarkFalse(o, "RollbackSucceeded") EXCEPT
              !.status.history = Record(@, Attempt("rollback", "succeeded", o.status.current))]
    ELSE [MarkFalse(o, "RollbackFailed") EXCEPT
              !.status.history = Record(@, Attempt("rollback", "failed", o.status.current))]

\* The uninstall action (intreconcile.NewUninstall(...).Reconcile): "ok"
\* removes the current deployment, "noCurrent" (ErrNoCurrent) finds nothing
\* to remove, "err" leaves it in place; never counted as a failure.
Uninstall(o, outcome) ==
    CASE outcome = "ok" ->
            [MarkFalse(o, "UninstallSucceeded") EXCEPT
                !.status.current = NoCurrent,
                !.status.history = Record(@, Attempt("uninstall", "succeeded", o.status.current))]
      [] outcome = "noCurrent" -> o
      [] OTHER ->
            [MarkFalse(o, "UninstallFailed") EXCEPT
                !.status.history = Record(@, Attempt("uninstall", "failed", o.status.current))]

\* Remediation once the retry budget is used up, by configured strategy.
Remediation(st, r) ==
    CASE r.strategy = "rollback" /\ st.current # NoCurrent
            /\ ~LastIs(st, "rollback", "succeeded") -> "RollingBack"
      [] r.strategy = "uninstall" /\ ~LastIs(st, "uninstall", "succeeded") -> "Uninstalling"
      [] OTHER -> "Stalled"

\* The state the engine derives from the status at the start of a pass.
EngineState(st, r, d) ==
    IF st.current = NoCurrent
    THEN IF st.installFailures >= r.retries THEN Remediation(st, r) ELSE "Installing"
    ELSE IF st.current.version # d.version \/ st.current.digest # d.digest \/ LastFailed(st)
         THEN IF st.upgradeFailures >= r.retries THEN Remediation(st, r) ELSE "Upgrading"
         ELSE "Ready"

EngineOut(o, state, acts, err) ==
    [o |-> o, state |-> state, acts |-> acts, err |-> err]

\* The action the engine issues in a state, "" where it issues none.
ActionOf(state) ==
    CASE state = "Installing" -> "install"
      [] state = "Upgrading" -> "upgrade"
      [] state = "RollingBack" -> "rollback"
      [] state = "Uninstalling" -> "uninstall"
      [] OTHER -> ""

\* intreconcile.NewAtomicRelease(...).Reconcile: exactly one logical step.
\* An action cancelled before it ends leaves the object as it was.
AtomicRelease(o, r, d, outcome) ==
    LET state == EngineState(o.status, r, d)
        err(what) == IF outcome = "ok" THEN "" ELSE what
    IN  CASE outcome = "cancelled" /\ ActionOf(state) # "" ->
                EngineOut(o, state, <<ActionOf(state)>>, "cancelled")
          [] state = "Installing" ->
                EngineOut(Deploy(o, "install", d, outcome), state, <<"install">>,
                          err("install failed"))
          [] state = "Upgrading" ->
                EngineOut(Deploy(o, "upgrade", d, outcome), state, <<"upgrade">>,
                          err("upgrade failed"))
          [] state = "RollingBack" ->
                EngineOut(Rollback(o, outcome), state, <<"rollback">>,
                          err("rollback failed"))
          [] state = "Uninstalling" ->
                EngineOut(Uninstall(o, IF outcome = "ok" THEN "ok" ELSE "err"), state,
                          <<"uninstall">>, err("uninstall failed"))
          [] state = "Ready" ->
                EngineOut([MarkTrue(o) EXCEPT !.marks.reconciling = "removed"], state,
                          <<>>, "")
          [] OTHER ->
                EngineOut(MarkStalled(MarkFalse(o, "RetriesExceeded")), "Stalled", <<>>, "")

\* ------------------------------------------------------ collaborator calls
\* The HelmChart object of the release, as getHelmChart returns it.
GoodChart == [generation |-> 1, observedGeneration |-> 1, ready |-> TRUE, artifact |-> TRUE]
HelmCharts ==
    {GoodChart,
     [GoodChart EXCEPT !.generation = 2],
     [GoodChart EXCEPT !.ready = FALSE],
     [GoodChart EXCEPT !.artifact = FALSE]}

\* The first collaborator call of the pass that fails, if any.
\* "prepare" stands for the calls of lines 228-268 that fail alike (fetching
\* the chart, composing the values, loading the chart); "getter" for a
\* failure to read the kubeconfig secret or to impersonate, "notFound" for
\* the secret or the service account being gone.
FailPoints ==
    {"none", "get", "chartTemplate", "depGet", "acl", "prepare", "getter", "notFound",
     "restConfig", "factory"}
UninstallOutcomes == {"ok", "noCurrent", "err", "factoryErr"}
DeployOutcomes == {"ok", "fail", "cancelled"}

\* The dependency list of a release that has one, and what the API server
\* may hold for it when a pass looks: the dependencies belong to others and
\* change on their own schedule, so each pass reads them afresh.
TwoDeps == <<[namespace |-> "", name |-> "a"], [namespace |-> "other", name |-> "b"]>>
AllReady == [k \in {<<Namespace, "a">>, <<"other", "b">>} |-> ReadyDep]
DepViews ==
    {AllReady,
     [AllReady EXCEPT ![<<Namespace, "a">>] = StaleDep],
     [AllReady EXCEPT ![<<"other", "b">>] = NotReadyDep],
     [k \in {<<Namespace, "a">>} |-> ReadyDep]}

\* The inputs of one pass. A later call's outcome is left at its default when
\* an earlier failure keeps the pass from making the call.
Env(fail, deps, hc, uninstall, deploy, patchErr) ==
    [fail |-> fail, deps |-> deps, hc |-> hc, uninstall |-> uninstall,
     deploy |-> deploy, patchErr |-> patchErr]

Envs ==
    \* a dependency is not ready, or the chart is not: the pass stops there
    {Env("none", ds, GoodChart, "ok", "ok", FALSE) : ds \in DepViews \ {AllReady}}
    \cup {Env("none", [AllReady EXCEPT ![<<"other", "b">>] = NotReadyDep], GoodChart,
               "ok", "ok", TRUE)}
    \cup {Env("none", AllReady, hc, "ok", "ok", FALSE) : hc \in HelmCharts \ {GoodChart}}
    \* a call fails
    \cup {Env(f, AllReady, GoodChart, "ok", "ok", FALSE) : f \in FailPoints}
    \* the uninstall of an old target or of a deleted release does not succeed
    \cup {Env(f, AllReady, GoodChart, u, "ok", FALSE) :
            f \in {"none", "chartTemplate"}, u \in UninstallOutcomes}
    \* the engine's action succeeds, fails or is cancelled
    \cup {Env("none", AllReady, GoodChart, "ok", d, pe) :
            d \in DeployOutcomes, pe \in BOOLEAN}
    \* the status patch fails after the chart template could not be reconciled
    \cup {Env("chartTemplate", AllReady, GoodChart, "ok", "ok", TRUE)}

DefaultEnv ==
    [fail |-> "none", deps |-> AllReady, hc |-> GoodChart, uninstall |-> "ok",
     deploy |-> "ok", patchErr |-> FALSE]

\* ----------------------------------------------------------------- results
Zero == [requeue |-> FALSE, requeueAfter |-> ""]             \* ctrl.Result{}
Immediate == [requeue |-> TRUE, requeueAfter |-> ""]         \* Requeue: true
After(interval) == [requeue |-> FALSE, requeueAfter |-> interval]

NoReset == [reached |-> FALSE, must |-> FALSE, counters |-> <<0, 0, 0>>]

\* What a pass hands back: the object as it leaves the pass, the result and
\* error, and a log of the path taken, of the Helm actions issued, and of what
\* reconcileUninstall's uninstall reported ("" when it was not run) and the
\* storage namespace its configuration was built for.
Ret(o, path, acts, result, err) ==
    [o |-> o, finalizer |-> "keep", path |-> path, acts |-> acts, result |-> result,
     err |-> err, terminal |-> FALSE, reset |-> NoReset, engine |-> "", uninstall |-> "",
     storage |-> ""]

Counters(st) == <<st.installFailures, st.upgradeFailures, st.failures>>

\* ------------------------------------------------------- reconcileRelease
\* A release that lists dependencies is held back whatever their state.
DependenciesNotReadyAlways(r, env) ==
    Len(r.dependsOn) > 0

\* Only a dependency that cannot be fetched holds the release back.
DependenciesNotReadyOnlyUnfetched(r, env) ==
    /\ Len(r.dependsOn) > 0
    /\ env.fail = "depGet"

\* Lines 209-212: the gate is checked only for a non-empty dependency list.
DependenciesNotReady(r, env) ==
    /\ Len(r.dependsOn) > 0
    /\ checkDependencies(r.dependsOn, Namespace, env.deps,
                         IF env.fail = "depGet" THEN DepKeys ELSE {}) # NoErr

\* The wait handed to the work queue as an immediate requeue.
DependencyWaitRequeuesAtOnce(o) ==
    Ret(MarkFalse(o, "DependencyNotReady"), "dependencyWait", <<>>, Immediate, "")

\* Lines 213-221: not ready, requeue on the fixed interval, no error.
DependencyWait(o) ==
    Ret(MarkFalse(o, "DependencyNotReady"), "dependencyWait", <<>>,
        After("requeueDependency"), "")

\* Denied access handled like any other failure to get the chart.
AccessDeniedAsOrdinaryError(o) ==
    Ret(MarkFalse(o, "ArtifactFailed"), "accessDenied", <<>>, Zero, "access denied")

\* Lines 230-238: stalled, not ready, not reconciling, terminal error.
AccessDenied(o) ==
    [Ret([MarkFalse(MarkStalled(o), "AccessDenied") EXCEPT !.marks.reconciling = "removed"],
         "accessDenied", <<>>, Zero, "access denied") EXCEPT !.terminal = TRUE]

\* A chart without an artifact passes.
ChartNotReadyIgnoresArtifact(hc) ==
    hc.generation # hc.observedGeneration \/ ~hc.ready

\* Line 247.
ChartNotReady(hc) ==
    hc.generation # hc.observedGeneration \/ ~hc.ready \/ ~hc.artifact

\* reconcileUninstall, lines 451-461.
reconcileUninstall(o, outcome) ==
    IF outcome = "factoryErr"
    THEN [o |-> MarkFalse(o, "ConfigFactoryErr"), err |-> "config factory", acts |-> <<>>,
          outcome |-> "", storage |-> o.status.storageNamespace]
    ELSE [o |-> Uninstall(o, outcome),
          err |-> CASE outcome = "ok" -> ""
                    [] outcome = "noCurrent" -> "ErrNoCurrent"
                    [] OTHER -> "uninstall failed",
          acts |-> <<"uninstall">>,
          outcome |-> outcome, storage |-> o.status.storageNamespace]

\* The status is cleared whether or not the old target was torn down.
TargetChangeClearsAnyway(o, outcome) ==
    LET u == reconcileUninstall(o, outcome)
        cleared == [u.o EXCEPT !.status.history = <<>>, !.status.current = NoCurrent,
                               !.status.storageNamespace = ""]
    IN  [(IF u.err # "" /\ u.err # "ErrNoCurrent"
              THEN Ret(cleared, "targetChangeFailed", u.acts, Zero, u.err)
              ELSE Ret(cleared, "targetChanged", u.acts, Immediate, ""))
         EXCEPT !.uninstall = u.outcome, !.storage = u.storage]

\* After the teardown the failure counters start afresh.
TargetChangeResetsFailures(o, outcome) ==
    LET u == reconcileUninstall(o, outcome)
    IN  [(IF u.err # "" /\ u.err # "ErrNoCurrent"
              THEN Ret(u.o, "targetChangeFailed", u.acts, Zero, u.err)
              ELSE Ret([u.o EXCEPT !.status.history = <<>>, !.status.current = NoCurrent,
                                   !.status.storageNamespace = "",
                                   !.status.installFailures = 0, !.status.upgradeFailures = 0,
                                   !.status.failures = 0],
                       "targetChanged", u.acts, Immediate, ""))
         EXCEPT !.uninstall = u.outcome, !.storage = u.storage]

\* Finding no current release is an error like any other.
TargetChangeFailsOnNoCurrent(o, outcome) ==
    LET u == reconcileUninstall(o, outcome)
    IN  [(IF u.err # ""
              THEN Ret(u.o, "targetChangeFailed", u.acts, Zero, u.err)
              ELSE Ret([u.o EXCEPT !.status.history = <<>>, !.status.current = NoCurrent,
                                   !.status.storageNamespace = ""],
                       "targetChanged", u.acts, Immediate, ""))
         EXCEPT !.uninstall = u.outcome, !.storage = u.storage]

\* Lines 281-287: uninstall the old target, then clear and requeue at once.
TargetChange(o, outcome) ==
    LET u == reconcileUninstall(o, outcome)
    IN  [(IF u.err # "" /\ u.err # "ErrNoCurrent"
              THEN Ret(u.o, "targetChangeFailed", u.acts, Zero, u.err)
              ELSE Ret([u.o EXCEPT !.status.history = <<>>, !.status.current = NoCurrent,
                                   !.status.storageNamespace = ""],
                       "targetChanged", u.acts, Immediate, ""))
         EXCEPT !.uninstall = u.outcome, !.storage = u.storage]

\* The total is left out of the reset.
ResetFailuresKeepsTotal(o, must) ==
    IF must
    THEN [o EXCEPT !.status.installFailures = 0, !.status.upgradeFailures = 0]
    ELSE o

\* The counters are zeroed in every pass.
ResetFailuresAlways(o, must) ==
    [o EXCEPT !.status.installFailures = 0, !.status.upgradeFailures = 0,
              !.status.failures = 0]

\* The test is negated: the counters are zeroed for an unchanged pair.
ResetFailuresInverted(o, must) ==
    IF ~must
    THEN [o EXCEPT !.status.installFailures = 0, !.status.upgradeFailures = 0,
                   !.status.failures = 0]
    ELSE o

\* Lines 294-298.
ResetFailures(o, must) ==
    IF must
    THEN [o EXCEPT !.status.installFailures = 0, !.status.upgradeFailures = 0,
                   !.status.failures = 0]
    ELSE o

\* The digest of the values is not recorded.
SetLastAttemptOmitsDigest(o, d) ==
    [o EXCEPT !.marks.lastAttemptedGeneration = "generation",
              !.status.lastAttemptedRevision = d.version]

\* The chart version is not recorded.
SetLastAttemptOmitsRevision(o, d) ==
    [o EXCEPT !.marks.lastAttemptedGeneration = "generation",
              !.status.lastAttemptedConfigDigest = d.digest]

\* Lines 301-304.
SetLastAttempt(o, d) ==
    [o EXCEPT !.marks.lastAttemptedGeneration = "generation",
              !.status.lastAttemptedRevision = d.version,
              !.status.lastAttemptedConfigDigest = d.digest]

\* Lines 307-321: build the config factory, run the engine.
RunEngine(o, r, d, env) ==
    IF env.fail = "factory"
    THEN Ret(MarkFalse(o, "FactoryError"), "factoryError", <<>>, Zero, "config factory")
    ELSE LET e == AtomicRelease(o, r, d, env.deploy)
         IN  [Ret(e.o, "engine", e.acts,
                  IF e.err # "" THEN Zero ELSE After("obj.interval"), e.err)
              EXCEPT !.engine = e.state]

\* Lines 290-321: no target change.
Proceed(o, r, d, env) ==
    LET o1 == [o EXCEPT !.status.storageNamespace = GetStorageNamespace(r)]
        must == MustResetFailures(o1.status, d.version, d.digest)
        o2 == ResetFailures(o1, must)
        o3 == SetLastAttempt(o2, d)
    IN  [RunEngine(o3, r, d, env) EXCEPT
            !.reset = [reached |-> TRUE, must |-> must, counters |-> Counters(o2.status)]]

\* The storage namespace is set to the desired one before the target check.
reconcileReleaseStorageFirst(r, o0, ch, env) ==
    LET o == [MarkReconciling(o0) EXCEPT !.status.storageNamespace = GetStorageNamespace(r)]
        d == Desired(r, ch)
    IN  IF DependenciesNotReady(r, env) THEN DependencyWait(o)
        ELSE IF env.fail = "acl" THEN AccessDenied(o)
        ELSE IF env.fail = "prepare"
        THEN Ret(MarkFalse(o, "ArtifactFailed"), "prepareError", <<>>, Zero, "prepare")
        ELSE IF ChartNotReady(env.hc)
        THEN Ret(MarkFalse(o, "HelmChartNotReady"), "chartNotReady", <<>>,
                 After("hc.interval"), "")
        ELSE IF env.fail \in {"getter", "notFound", "restConfig"}
        THEN Ret(MarkFalse(o, "RESTClientError"), "getterError", <<>>, Zero, "rest client")
        ELSE IF ReleaseTargetChanged(o.status, r, ch.name) THEN TargetChange(o, env.uninstall)
        ELSE Proceed(o, r, d, env)

\* reconcileRelease, lines 202-322.
reconcileRelease(r, o0, ch, env) ==
    LET o == MarkReconciling(o0)
        d == Desired(r, ch)
    IN  IF DependenciesNotReady(r, env) THEN DependencyWait(o)
        ELSE IF env.fail = "acl" THEN AccessDenied(o)
        ELSE IF env.fail = "prepare"
        THEN Ret(MarkFalse(o, "ArtifactFailed"), "prepareError", <<>>, Zero, "prepare")
        ELSE IF ChartNotReady(env.hc)
        THEN Ret(MarkFalse(o, "HelmChartNotReady"), "chartNotReady", <<>>,
                 After("hc.interval"), "")
        ELSE IF env.fail \in {"getter", "notFound", "restConfig"}
        THEN Ret(MarkFalse(o, "RESTClientError"), "getterError", <<>>, Zero, "rest client")
        ELSE IF ReleaseTargetChanged(o.status, r, ch.name) THEN TargetChange(o, env.uninstall)
        ELSE Proceed(o, r, d, env)

\* --------------------------------------------------------- reconcileDelete
Del(o, err, acts) ==
    [o |-> o, err |-> err, acts |-> acts, uninstall |-> "", storage |-> ""]

\* The status is truncated also when the uninstall is skipped for a missing
\* kubeconfig secret or service account.
reconcileReleaseDeletionClearsOnSkip(r, o, env) ==
    IF ~r.deleting THEN Del(o, "refusing to uninstall", <<>>)
    ELSE IF o.status.storageNamespace = "" THEN Del(o, "", <<>>)
    ELSE IF env.fail = "notFound"
    THEN Del([o EXCEPT !.status.history = <<>>, !.status.current = NoCurrent,
                       !.status.storageNamespace = ""], "", <<>>)
    ELSE IF env.fail = "getter" THEN Del(MarkFalse(o, "UninstallFailed"), "rest client", <<>>)
    ELSE IF env.fail = "restConfig" THEN Del(o, "rest config", <<>>)
    ELSE LET u == reconcileUninstall(o, env.uninstall)
         IN  [(IF u.err # "" /\ u.err # "ErrNoCurrent"
               THEN Del(u.o, u.err, u.acts)
               ELSE Del([u.o EXCEPT !.status.history = <<>>, !.status.current = NoCurrent,
                                    !.status.storageNamespace = ""], "", u.acts))
              EXCEPT !.uninstall = u.outcome, !.storage = u.storage]

\* reconcileReleaseDeletion, lines 363-440.
reconcileReleaseDeletion(r, o, env) ==
    IF ~r.deleting THEN Del(o, "refusing to uninstall", <<>>)
    ELSE IF o.status.storageNamespace = "" THEN Del(o, "", <<>>)
    ELSE IF env.fail = "notFound" THEN Del(o, "", <<>>)
    ELSE IF env.fail = "getter" THEN Del(MarkFalse(o, "UninstallFailed"), "rest client", <<>>)
    ELSE IF env.fail = "restConfig" THEN Del(o, "rest config", <<>>)
    ELSE LET u == reconcileUninstall(o, env.uninstall)
         IN  [(IF u.err # "" /\ u.err # "ErrNoCurrent"
               THEN Del(u.o, u.err, u.acts)
               ELSE Del([u.o EXCEPT !.status.history = <<>>, !.status.current = NoCurrent,
                                    !.status.storageNamespace = ""], "", u.acts))
              EXCEPT !.uninstall = u.outcome, !.storage = u.storage]

\* The finalizer is removed whatever the uninstall returned.
reconcileDeleteIgnoresError(r, o, env) ==
    LET del == IF r.suspend THEN Del(o, "", <<>>) ELSE reconcileReleaseDeletion(r, o, env)
    IN  [Ret(del.o, "deleted", del.acts, Zero, del.err)
         EXCEPT !.finalizer = "remove", !.uninstall = del.uninstall, !.storage = del.storage]

\* A suspended release is torn down like any other.
reconcileDeleteIgnoresSuspend(r, o, env) ==
    LET del == reconcileReleaseDeletion(r, o, env)
        ret == IF del.err # "" THEN Ret(del.o, "deleteFailed", del.acts, Zero, del.err)
               ELSE IF env.fail = "chartTemplate"
               THEN Ret(del.o, "deleteChartTemplateError", del.acts, Zero, "chart template")
               ELSE [Ret(del.o, "deleted", del.acts, Zero, "") EXCEPT !.finalizer = "remove"]
    IN  [ret EXCEPT !.uninstall = del.uninstall, !.storage = del.storage]

\* reconcileDelete, lines 326-348.
reconcileDelete(r, o, env) ==
    LET del == IF r.suspend THEN Del(o, "", <<>>) ELSE reconcileReleaseDeletion(r, o, env)
        ret == IF del.err # "" THEN Ret(del.o, "deleteFailed", del.acts, Zero, del.err)
               ELSE IF ~r.suspend /\ env.fail = "chartTemplate"
               THEN Ret(del.o, "deleteChartTemplateError", del.acts, Zero, "chart template")
               ELSE IF r.deleting
               THEN [Ret(del.o, "deleted", del.acts, Zero, "") EXCEPT !.finalizer = "remove"]
               ELSE Ret(del.o, "deleteRequeue", del.acts, Immediate, "")
    IN  [ret EXCEPT !.uninstall = del.uninstall, !.storage = del.storage]

\* ---------------------------------------------------------------- Reconcile
\* A suspended release is reconciled like any other.
ReconcileBodyIgnoresSuspend(r, o, ch, env) ==
    IF r.deleting THEN reconcileDelete(r, o, env)
    ELSE IF ~r.finalizer
    THEN [Ret(o, "addFinalizer", <<>>, Immediate, "") EXCEPT !.finalizer = "add"]
    ELSE IF env.fail = "chartTemplate"
    THEN Ret(o, "chartTemplateError", <<>>, Zero, "chart template")
    ELSE reconcileRelease(r, o, ch, env)

\* Suspension is looked at before the finalizer.
ReconcileBodySuspendFirst(r, o, ch, env) ==
    IF r.deleting THEN reconcileDelete(r, o, env)
    ELSE IF r.suspend THEN Ret(o, "suspended", <<>>, Zero, "")
    ELSE IF ~r.finalizer
    THEN [Ret(o, "addFinalizer", <<>>, Immediate, "") EXCEPT !.finalizer = "add"]
    ELSE IF env.fail = "chartTemplate"
    THEN Ret(o, "chartTemplateError", <<>>, Zero, "chart template")
    ELSE reconcileRelease(r, o, ch, env)

\* Lines 174-199: deletion, finalizer, suspend, chart template, release.
ReconcileBody(r, o, ch, env) ==
    IF r.deleting THEN reconcileDelete(r, o, env)
    ELSE IF ~r.finalizer
    THEN [Ret(o, "addFinalizer", <<>>, Immediate, "") EXCEPT !.finalizer = "add"]
    ELSE IF r.suspend THEN Ret(o, "suspended", <<>>, Zero, "")
    ELSE IF env.fail = "chartTemplate"
    THEN Ret(o, "chartTemplateError", <<>>, Zero, "chart template")
    ELSE reconcileRelease(r, o, ch, env)

\* Only an empty Result lets the generation count as observed.
PatchObservedGenerationOnlyZero(out) ==
    out.terminal \/ (out.err = "" /\ out.result = Zero)

\* Line 157: whether the patch records status.observedGeneration.
PatchObservedGeneration(out) ==
    out.terminal \/ (out.err = "" /\ ~out.result.requeue)

\* The patch error overwrites the error of the body.
ReturnedErrorPatchOverwrites(out, patchErr) ==
    IF patchErr THEN <<"patch">>
    ELSE IF out.err # "" THEN <<out.err>> ELSE <<>>

\* Lines 161-167: the error Reconcile returns, as the list of its causes.
ReturnedError(out, patchErr) ==
    (IF out.err # "" THEN <<out.err>> ELSE <<>>) \o (IF patchErr THEN <<"patch">> ELSE <<>>)

\* The status is written only by a pass that ended without an error.
PatchStatusOnlyOnSuccess(st, out, patchErr) ==
    IF patchErr \/ out.err # "" THEN st ELSE out.o.status

\* Lines 150-161: the deferred patch writes the object as the body left it,
\* whatever the body returned; a failed patch persists nothing.
PatchStatus(st, out, patchErr) ==
    IF patchErr THEN st ELSE out.o.status

NoPass ==
    [path |-> "none", acts |-> <<>>, result |-> Zero, err |-> <<>>, terminal |-> FALSE,
     reset |-> NoReset, engine |-> "", marks |-> NoMarks, pre |-> EmptyStatus,
     patched |-> FALSE, patchErr |-> FALSE, observed |-> FALSE, depsReady |-> TRUE,
     uninstall |-> "", storage |-> "", retErr |-> "", chartReady |-> TRUE]

\* The record of a pass that ran the body and the deferred patch: pre is the
\* status it fetched, marks what it did to the write-only fields, observed
\* whether its patch carried status.observedGeneration, depsReady whether
\* every dependency of the release was ready while the pass ran, retErr the
\* error of the body before the deferred patch, err the error returned,
\* storage the storage namespace reconcileUninstall worked against,
\* chartReady whether the HelmChart of the release was ready while the pass ran.
PassOf(r, st, out, env) ==
    [path |-> out.path, acts |-> out.acts, result |-> out.result,
     err |-> ReturnedError(out, env.patchErr), terminal |-> out.terminal,
     reset |-> out.reset, engine |-> out.engine, marks |-> out.o.marks, pre |-> st,
     patched |-> TRUE, patchErr |-> env.patchErr,
     observed |-> PatchObservedGeneration(out),
     depsReady |-> checkDependencies(r.dependsOn, Namespace, env.deps, {}) = NoErr,
     uninstall |-> out.uninstall, storage |-> out.storage, retErr |-> out.err,
     chartReady |-> env.hc = GoodChart]

ApplyFinalizer(r, op) ==
    CASE op = "add" -> [r EXCEPT !.finalizer = TRUE]
      [] op = "remove" ->
            \* the API server removes a deleted object once its finalizers are gone
            [r EXCEPT !.finalizer = FALSE, !.exists = ~r.deleting]
      [] OTHER -> r

\* What one call of Reconcile (lines 134-200) leaves behind when its
\* collaborators answer as env says: the record of the pass, the persisted
\* status and the stored object. A failed patch persists nothing.
Outcome(env) ==
    IF ~hr.exists \/ env.fail = "get"
    THEN \* lines 140-142: nothing fetched, nothing patched
         [pass |-> [NoPass EXCEPT
                      !.path = IF hr.exists THEN "getError" ELSE "notFound",
                      !.err = IF hr.exists THEN <<"get">> ELSE <<>>,
                      !.pre = status],
          status |-> status, hr |-> hr]
    ELSE LET out == ReconcileBody(hr, Obj(status), chart, env)
         IN  [pass |-> PassOf(hr, status, out, env),
              status |-> PatchStatus(status, out, env.patchErr),
              hr |-> IF env.patchErr THEN hr ELSE ApplyFinalizer(hr, out.finalizer)]

\* One call of Reconcile whose collaborators answer as env says.
ReconcileWith(env) ==
    \E after \in {Outcome(env)} :
        /\ pass' = after.pass
        /\ status' = after.status
        /\ hr' = after.hr
        /\ UNCHANGED <<chart, edits, gate, store, buf, watch>>

\* One call of Reconcile, under any answers of the collaborators.
Reconcile ==
    \E env \in Envs :
        /\ ~hr.exists => env = DefaultEnv
        /\ ReconcileWith(env)

\* ------------------------------------------------------------ cluster events
\* A user edits the spec.
EditSpec ==
    /\ edits < MaxEdits /\ hr.exists
    /\ edits' = edits + 1
    /\ pass' = NoPass
    /\ \E f \in {"targetNamespace", "values", "suspend"} :
        \/ /\ f = "targetNamespace"
           /\ \E v \in TargetNamespaces \ {hr.targetNamespace} :
                hr' = [hr EXCEPT !.targetNamespace = v]
           /\ UNCHANGED chart
        \/ /\ f = "values"
           /\ \E v \in ValuesSet \ {hr.values} : hr' = [hr EXCEPT !.values = v]
           /\ UNCHANGED chart
        \/ /\ f = "suspend"
           /\ hr' = [hr EXCEPT !.suspend = ~@]
           /\ UNCHANGED chart
    /\ UNCHANGED <<status, gate, store, buf, watch>>

\* The chart's artifact gets a newer version.
ChangeChart ==
    /\ hr.exists
    /\ chart.version = "1.0.0"
    /\ chart' = [chart EXCEPT !.version = "1.1.0"]
    /\ pass' = NoPass
    /\ UNCHANGED <<hr, status, edits, gate, store, buf, watch>>

\* The release is deleted: with a finalizer it stays, marked for deletion.
Delete ==
    /\ hr.exists /\ ~hr.deleting
    /\ hr' = IF hr.finalizer THEN [hr EXCEPT !.deleting = TRUE]
             ELSE [hr EXCEPT !.exists = FALSE]
    /\ pass' = NoPass
    /\ UNCHANGED <<chart, status, edits, gate, store, buf, watch>>

\* ------------------------------------------------------------ specification
RetryLimits == {1, 2}              \* the configured remediation retries

\* ------------------------------------------------------- HelmChart watch
\* The artifact of a HelmChart: none, or one of a revision.
Revisions == {"1.0.0", "1.1.0"}
NoArtifact == [set |-> FALSE, revision |-> ""]
Artifact(revision) == [set |-> TRUE, revision |-> revision]

\* Lines 94-105: the key a HelmRelease is indexed under, the namespace of its
\* chart (its own unless set otherwise) and the name of its HelmChart.
SourceIndexKey(obj) ==
    <<IF obj.chartNamespace = "" THEN obj.namespace ELSE obj.chartNamespace,
      obj.chartName>>

\* client.ObjectKeyFromObject
ObjectKeyFromObject(o) == <<o.namespace, o.name>>

\* Artifact.HasRevision, line 564.
HasRevision(artifact, revision) == artifact.revision = revision

\* Lines 553-555: the releases indexed under the key, in the order listed.
List(items, key) == SelectSeq(items, LAMBDA i : SourceIndexKey(i) = key)

\* Lines 561-568: a request for every item whose last attempted revision is
\* not the artifact's.
RECURSIVE Requests(_, _)
Requests(hc, items) ==
    IF items = <<>> THEN <<>>
    ELSE LET i == Head(items)
         IN  (IF HasRevision(hc.artifact, i.status.lastAttemptedRevision)
              THEN <<>> ELSE <<ObjectKeyFromObject(i)>>)
             \o Requests(hc, Tail(items))

\* Every release indexed under the chart is enqueued.
requestsForHelmChartChangeAll(hc, items, listErr) ==
    IF ~hc.artifact.set THEN <<>>
    ELSE IF listErr THEN <<>>
    ELSE LET list == List(items, ObjectKeyFromObject(hc))
         IN  [k \in 1..Len(list) |-> ObjectKeyFromObject(list[k])]

\* requestsForHelmChartChange, lines 540-570. The handler is registered for
\* HelmChart objects only (line 123), so its type assertion holds.
requestsForHelmChartChange(hc, items, listErr) ==
    IF ~hc.artifact.set THEN <<>>
    ELSE IF listErr THEN <<>>
    ELSE Requests(hc, List(items, ObjectKeyFromObject(hc)))

NoWatch ==
    [items |-> <<>>,
     hc |-> [namespace |-> Namespace, name |-> "podinfo", artifact |-> NoArtifact],
     listErr |-> FALSE, reqs |-> <<>>, handled |-> FALSE]

\* ------------------------------------------------------------ LogBuffer
\* NewLogBuffer falls back to this size when asked for none.
DefaultBufferSize == 5

\* An empty slot of the ring, and the line a Log call writes.
NoLine == [set |-> FALSE, msg |-> "", ts |-> 0, lastTS |-> 0, count |-> 0]
LogLine(msg, now) == [set |-> TRUE, msg |-> msg, ts |-> now, lastTS |-> 0, count |-> 0]

\* NewLogBuffer(log, size): a ring of size slots, all empty.
NewLogBuffer(size) ==
    LET n == IF size <= 0 THEN DefaultBufferSize ELSE size
    IN  [size |-> n, ring |-> [i \in 0..(n - 1) |-> NoLine], pos |-> 0,
         inner |-> 0, calls |-> <<>>]

\* Every call takes a slot, repeated or not.
LogWithoutFilter(b, msg) ==
    LET now == Len(b.calls) + 1
    IN  [b EXCEPT !.ring[b.pos] = LogLine(msg, now),
                  !.pos = (b.pos + 1) % b.size,
                  !.inner = @ + 1, !.calls = Append(@, msg)]

\* LogBuffer.Log: a message equal to the one logged last is counted on that
\* line; any other message takes the slot at the position, which moves on.
\* The inner log function is called either way. The clock is the call count.
Log(b, msg) ==
    LET now == Len(b.calls) + 1
        p == (b.pos + b.size - 1) % b.size
        prev == b.ring[p]
    IN  IF prev.set /\ prev.msg = msg
        THEN [b EXCEPT !.ring[p].count = @ + 1, !.ring[p].lastTS = now,
                       !.inner = @ + 1, !.calls = Append(@, msg)]
        ELSE [b EXCEPT !.ring[b.pos] = LogLine(msg, now),
                       !.pos = (b.pos + 1) % b.size,
                       !.inner = @ + 1, !.calls = Append(@, msg)]

\* LogBuffer.Len: the slots that hold a line.
LenOf(b) == Cardinality({i \in DOMAIN b.ring : b.ring[i].set})

\* One rendered line: timestamp, message, and the number of duplicate lines
\* it says were omitted ("line" for one, "lines" for more, 0: says nothing).
Rendered(ts, msg, omitted) ==
    [ts |-> ts, msg |-> msg, omitted |-> omitted,
     word |-> IF omitted = 0 THEN "" ELSE IF omitted = 1 THEN "line" ELSE "lines"]

\* logLine.String: the line; if repeated, the line again with the time of the
\* last repeat, and the count of the repeats between when there are any.
LineString(l) ==
    <<Rendered(l.ts, l.msg, 0)>>
        \o (IF l.count > 0 THEN <<Rendered(l.lastTS, l.msg, l.count - 1)>> ELSE <<>>)

\* LogBuffer.String: the lines of the ring from the position on, oldest
\* first, empty slots skipped.
RECURSIVE StringFrom(_, _)
StringFrom(b, k) ==
    IF k = b.size THEN <<>>
    ELSE LET l == b.ring[(b.pos + k) % b.size]
         IN  (IF l.set THEN LineString(l) ELSE <<>>) \o StringFrom(b, k + 1)

\* The ring read from its first slot, wherever the position is.
StringFromFirstSlot(b) == StringFrom([b EXCEPT !.pos = 0], 0)

String(b) == StringFrom(b, 0)

NoBuf == NewLogBuffer(1)

NoStore == [cap |-> HistoryCap, inserted |-> <<>>, history |-> <<>>]

NoGate == [dependsOn |-> <<>>, objects |-> AllReady, unreachable |-> {},
           checked |-> FALSE, err |-> NoErr]

InitRelease(n, s) ==
    [exists |-> TRUE, deleting |-> FALSE, finalizer |-> FALSE, suspend |-> FALSE,
     targetNamespace |-> "", releaseName |-> "app", values |-> "v1",
     dependsOn |-> TwoDeps, retries |-> n, strategy |-> s]

Init ==
    /\ \E n \in RetryLimits, s \in Strategies : hr = InitRelease(n, s)
    /\ chart = [name |-> "podinfo", version |-> "1.0.0"]
    /\ status = EmptyStatus
    /\ pass = NoPass
    /\ edits = 0
    /\ gate = NoGate
    /\ store = NoStore
    /\ buf = NoBuf
    /\ watch = NoWatch

Next ==
    \/ Reconcile
    \/ EditSpec
    \/ ChangeChart
    \/ Delete

Spec == Init /\ [][Next]_vars

\* ---------------------------------------------- checkDependencies, alone
SeqsUpTo(S, n) == UNION {[1..k -> S] : k \in 0..n}
ClusterStates == UNION {[K -> DepObjects] : K \in SUBSET DepKeys}

InitGate ==
    /\ hr = InitRelease(1, "none")
    /\ chart = [name |-> "podinfo", version |-> "1.0.0"]
    /\ status = EmptyStatus
    /\ pass = NoPass
    /\ edits = 0
    /\ store = NoStore
    /\ buf = NoBuf
    /\ watch = NoWatch
    /\ \E ds \in SeqsUpTo(DepRefs, MaxDeps), objs \in ClusterStates,
          un \in {{}} \cup {{k} : k \in DepKeys} :
        gate = [dependsOn |-> ds, objects |-> objs, unreachable |-> un,
                checked |-> FALSE, err |-> NoErr]

CheckGate ==
    /\ ~gate.checked
    /\ gate' = [gate EXCEPT !.checked = TRUE,
                   !.err = checkDependencies(gate.dependsOn, Namespace, gate.objects,
                                             gate.unreachable)]
    /\ UNCHANGED <<hr, chart, status, pass, edits, store, buf, watch>>

NextGate == CheckGate

SpecGate == InitGate /\ [][NextGate]_vars

\* ------------------------------------------------- history store, alone
\* The attempts inserted: finalized entries that differ in kind, outcome
\* and revision.
StoredAttempts ==
    {Attempt("install", "failed", [version |-> "1.0.0", digest |-> "sha256:d1"]),
     Attempt("install", "succeeded", [version |-> "1.0.0", digest |-> "sha256:d1"]),
     Attempt("upgrade", "failed", [version |-> "1.1.0", digest |-> "sha256:d1"])}

InitHistory ==
    /\ hr = InitRelease(1, "none")
    /\ chart = [name |-> "podinfo", version |-> "1.0.0"]
    /\ status = EmptyStatus
    /\ pass = NoPass
    /\ edits = 0
    /\ gate = NoGate
    /\ \E n \in 1..MaxCap : store = [cap |-> n, inserted |-> <<>>, history |-> <<>>]
    /\ buf = NoBuf
    /\ watch = NoWatch

\* One finalized attempt is inserted into the store.
Insert ==
    /\ Len(store.inserted) < MaxInserts
    /\ \E a \in StoredAttempts :
        store' = [store EXCEPT !.inserted = Append(@, a),
                               !.history = RecordWithin(@, a, store.cap)]
    /\ UNCHANGED <<hr, chart, status, pass, edits, gate, buf, watch>>

NextHistory == Insert

SpecHistory == InitHistory /\ [][NextHistory]_vars

\* --------------------------------------------------- HelmChart watch, alone
\* The HelmCharts an event can be about, and the HelmReleases in the cluster:
\* each points at the chart "podinfo" in its own or in another namespace and
\* has attempted none or one of the revisions.
WatchedCharts ==
    [namespace : {Namespace, "other"}, name : {"podinfo"},
     artifact : {NoArtifact} \cup {Artifact(v) : v \in Revisions}]

ReleaseItem(n, chartNamespace, revision) ==
    [namespace |-> Namespace, name |-> n, chartNamespace |-> chartNamespace,
     chartName |-> "podinfo", status |-> [lastAttemptedRevision |-> revision]]

InitWatch ==
    /\ hr = InitRelease(1, "none")
    /\ chart = [name |-> "podinfo", version |-> "1.0.0"]
    /\ status = EmptyStatus
    /\ pass = NoPass
    /\ edits = 0
    /\ gate = NoGate
    /\ store = NoStore
    /\ buf = NoBuf
    /\ \E n \in 0..MaxReleases :
         \E f \in [1..n -> {"", "other"} \X ({""} \cup Revisions)] :
            watch = [NoWatch EXCEPT
                        !.items = [i \in 1..n |-> ReleaseItem(i, f[i][1], f[i][2])]]

\* A HelmChart event reaches handler.EnqueueRequestsFromMapFunc (line 124).
HelmChartChange ==
    /\ \E hc \in WatchedCharts, listErr \in BOOLEAN :
         watch' = [watch EXCEPT
                      !.hc = hc, !.listErr = listErr, !.handled = TRUE,
                      !.reqs = requestsForHelmChartChange(hc, watch.items, listErr)]
    /\ UNCHANGED <<hr, chart, status, pass, edits, gate, store, buf>>

NextWatch == HelmChartChange

SpecWatch == InitWatch /\ [][NextWatch]_vars

\* --------------------------------------------------------- LogBuffer, alone
Messages == {"a", "b", "c"}

InitLog ==
    /\ hr = InitRelease(1, "none")
    /\ chart = [name |-> "podinfo", version |-> "1.0.0"]
    /\ status = EmptyStatus
    /\ pass = NoPass
    /\ edits = 0
    /\ gate = NoGate
    /\ store = NoStore
    /\ \E size \in 0..MaxSize : buf = NewLogBuffer(size)
    /\ watch = NoWatch

\* l.Log("%s", v)
LogCall ==
    /\ Len(buf.calls) < MaxCalls
    /\ \E v \in Messages : buf' = Log(buf, v)
    /\ UNCHANGED <<hr, chart, status, pass, edits, gate, store, watch>>

NextLog == LogCall

SpecLog == InitLog /\ [][NextLog]_vars

\* ----------------------------------- dependencies that converge, with fairness
\* The dependencies are objects of the cluster that last from pass to pass:
\* gate.objects holds them. They change on their own schedule until all are
\* Ready at their latest generation, and then stay so.
Converged == gate.objects = AllReady

\* A pass in which every call succeeds, on the dependencies as they are.
GoodEnv == Env("none", gate.objects, GoodChart, "ok", "ok", FALSE)

\* What may happen in a pass: a read fails, the action fails, the patch fails.
LiveEnvs ==
    {Env(f, gate.objects, GoodChart, "ok", "ok", FALSE) :
        f \in {"none", "get", "depGet", "chartTemplate"}}
    \cup {Env("none", gate.objects, GoodChart, "ok", d, pe) :
            d \in {"ok", "fail"}, pe \in BOOLEAN}

InitLive ==
    /\ \E s \in Strategies : hr = InitRelease(1, s)
    /\ chart = [name |-> "podinfo", version |-> "1.0.0"]
    /\ status = EmptyStatus
    /\ pass = NoPass
    /\ edits = 0
    /\ store = NoStore
    /\ buf = NoBuf
    /\ watch = NoWatch
    /\ \E objs \in DepViews \ {AllReady} : gate = [NoGate EXCEPT !.objects = objs]

\* A dependency is reconciled by its own controller, or edited.
DependencyChange ==
    /\ ~Converged
    /\ \E objs \in DepViews \ {gate.objects} : gate' = [gate EXCEPT !.objects = objs]
    /\ pass' = NoPass
    /\ UNCHANGED <<hr, chart, status, edits, store, buf, watch>>

ReconcileLive ==
    \E env \in LiveEnvs :
        /\ ~hr.exists => env = GoodEnv
        /\ ReconcileWith(env)

\* The pass in which every call succeeds.
ReconcileGood == ReconcileWith(GoodEnv)

NextLive ==
    \/ ReconcileLive
    \/ DependencyChange
    \/ EditSpec
    \/ ChangeChart
    \/ Delete

\* ReconcileGood would change the state: ENABLED <<ReconcileGood>>_vars,
\* written out as a state predicate.
ReconcileGoodEnabled ==
    LET after == Outcome(GoodEnv)
    IN  <<after.pass, after.status, after.hr>> # <<pass, status, hr>>

\* The work queue hands every requeued or changed release to Reconcile again,
\* and failures of reads and of the patch are transient: a pass in which every
\* call succeeds cannot be put off for ever. This is WF_vars(ReconcileGood)
\* with its definition unfolded: <>[]ENABLED <<A>>_v => []<><<A>>_v.
FairScheduling ==
    ([]<>~ReconcileGoodEnabled) \/ ([]<><<ReconcileGood>>_vars)

SpecLive == InitLive /\ [][NextLive]_vars /\ FairScheduling

\* ================================================================== claims
\* A pass that reached the dependency gate of reconcileRelease: the release
\* is not being deleted, carries the finalizer, is not suspended, and its
\* chart template was reconciled.
ReachedGate ==
    /\ pass.patched
    /\ pass.path \notin {"deleted", "deleteFailed", "deleteChartTemplateError",
                         "deleteRequeue", "addFinalizer", "suspended",
                         "chartTemplateError"}

\* C1, as stated: every pass of a release with a dependency that is not
\* ready runs no Helm action, does not invoke the engine, returns no error
\* and requeues after the fixed dependency interval.
C1_EveryPassWaits ==
    (pass.patched /\ ~pass.depsReady) =>
        /\ pass.acts = <<>>
        /\ pass.engine = ""
        /\ pass.err = <<>>
        /\ pass.result = After("requeueDependency")

\* C1, amended: every pass that reaches the dependency gate with a dependency
\* that is not ready stops there: it runs no Helm action, does not invoke the
\* engine, asks for a requeue after the fixed dependency interval, and returns
\* no error of its own (Reconcile returns an error only if the status patch
\* fails).
C1_GatedPassWaits ==
    (ReachedGate /\ ~pass.depsReady) =>
        /\ pass.path = "dependencyWait"
        /\ pass.acts = <<>>
        /\ pass.engine = ""
        /\ ~pass.reset.reached
        /\ pass.result = After("requeueDependency")
        /\ pass.err = IF pass.patchErr THEN <<"patch">> ELSE <<>>
        /\ status = pass.pre

\* A pass has stopped at the gate of a release that has a deployment.
C1_Witness ==
    /\ pass.path = "dependencyWait" /\ ~pass.depsReady /\ ~pass.patchErr
    /\ status.current # NoCurrent

\* The i-th listed dependency, looked up in its own namespace or in the
\* release's when unset, is fetched, observed at its generation, and Ready.
DependencyOk(i) ==
    LET d == gate.dependsOn[i]
        key == <<IF d.namespace = "" THEN Namespace ELSE d.namespace, d.name>>
    IN  /\ key \in DOMAIN gate.objects
        /\ key \notin gate.unreachable
        /\ gate.objects[key].observedGeneration = gate.objects[key].generation
        /\ gate.objects[key].ready

\* C2: checkDependencies succeeds if and only if every listed dependency can
\* be fetched, has observedGeneration equal to its generation and is Ready;
\* otherwise its error names a listed dependency that fails one of these (a
\* fetch error for a missing or unreachable one, not-ready for a stale or
\* not-ready one).
C2_CheckDependencies ==
    gate.checked =>
        /\ (gate.err = NoErr) <=> (\A i \in 1..Len(gate.dependsOn) : DependencyOk(i))
        /\ gate.err # NoErr =>
             \E i \in 1..Len(gate.dependsOn) :
                LET d == gate.dependsOn[i]
                    key == <<IF d.namespace = "" THEN Namespace ELSE d.namespace, d.name>>
                IN  /\ ~DependencyOk(i)
                    /\ \A j \in 1..(i - 1) : DependencyOk(j)
                    /\ gate.err.ref = key
                    /\ (gate.err.kind = "get") <=>
                            (key \notin DOMAIN gate.objects \/ key \in gate.unreachable)
                    /\ gate.err.kind \in {"get", "notReady"}

\* The check has failed on a stale dependency whose namespace was unset,
\* listed after a ready one.
C2_Witness ==
    /\ gate.checked
    /\ Len(gate.dependsOn) = 2
    /\ gate.err.kind = "notReady"
    /\ gate.dependsOn[2].namespace = ""
    /\ gate.err.ref = <<Namespace, gate.dependsOn[2].name>>
    /\ gate.objects[gate.err.ref] = StaleDep

\* The desired (chart version, values digest) pair and target of the release.
Want == Desired(hr, chart)

\* A pass that got past dependency and chart resolution, to the check for a
\* change of target.
ReachedTargetCheck ==
    /\ ReachedGate
    /\ pass.path \notin {"dependencyWait", "accessDenied", "prepareError",
                         "chartNotReady", "getterError"}

\* The pass started with a current deployment recorded for another target
\* (release namespace, release name, chart name) than the desired one.
TargetChangedBefore ==
    /\ pass.pre.current # NoCurrent
    /\ <<pass.pre.current.namespace, pass.pre.current.name, pass.pre.current.chartName>>
         # <<Want.namespace, Want.name, Want.chartName>>

\* C3, as stated: a pass that gets past dependency and chart resolution after
\* a change of target issues exactly one uninstall and clears the current
\* deployment record and storageNamespace (the status patch succeeding).
C3_AlwaysTornDown ==
    (ReachedTargetCheck /\ TargetChangedBefore /\ ~pass.patchErr) =>
        /\ pass.acts = <<"uninstall">>
        /\ status.current = NoCurrent
        /\ status.storageNamespace = ""

\* C3, amended: a pass that gets past dependency and chart resolution after a
\* change of target issues at most one uninstall (none if the config factory
\* fails) and never invokes the engine. If the uninstall succeeds or finds no
\* current release, the pass returns no error of its own and its status has
\* no current deployment, no history and no storageNamespace; otherwise it
\* returns the error and keeps the current deployment and storageNamespace.
\* No pass that starts with the target changed attempts an install or upgrade.
C3_TargetChange ==
    /\ (ReachedTargetCheck /\ TargetChangedBefore) =>
        /\ pass.acts \in {<<>>, <<"uninstall">>}
        /\ pass.engine = "" /\ ~pass.reset.reached
        /\ pass.err \in {<<>>, <<"patch">>} => pass.acts = <<"uninstall">>
        /\ pass.err = <<>> =>
              /\ status.current = NoCurrent
              /\ status.history = <<>>
              /\ status.storageNamespace = ""
        /\ (pass.err # <<>> /\ ~pass.patchErr) =>
              /\ status.current = pass.pre.current
              /\ status.storageNamespace = pass.pre.storageNamespace
    /\ (pass.patched /\ TargetChangedBefore) =>
        \A i \in 1..Len(pass.acts) : pass.acts[i] \notin {"install", "upgrade"}

\* The old target has been uninstalled and the status cleared.
C3_Witness ==
    /\ ReachedTargetCheck /\ TargetChangedBefore
    /\ pass.acts = <<"uninstall">> /\ pass.err = <<>>
    /\ pass.pre.storageNamespace # "" /\ status.storageNamespace = ""
    /\ status.current = NoCurrent

\* C4: a pass that detects a change of target and tears the old target down
\* (the uninstall succeeded or found no current release) ends with an
\* immediate requeue and does nothing further: the failure counters and the
\* last attempted revision, digest and generation are as before, the reset
\* check is not reached, storageNamespace is not set to the new value, and the
\* engine is not invoked.
C4_TargetChangeStopsThere ==
    (ReachedTargetCheck /\ TargetChangedBefore /\ pass.err \in {<<>>, <<"patch">>}) =>
        /\ pass.result = Immediate
        /\ ~pass.reset.reached
        /\ pass.engine = ""
        /\ pass.marks.lastAttemptedGeneration = "kept"
        /\ Counters(status) = Counters(pass.pre)
        /\ status.lastAttemptedRevision = pass.pre.lastAttemptedRevision
        /\ status.lastAttemptedConfigDigest = pass.pre.lastAttemptedConfigDigest
        /\ status.storageNamespace # GetStorageNamespace(hr)
        /\ ~pass.patchErr => status.storageNamespace = ""

\* The target changed together with the chart version, after failures: the
\* pass kept the counters and the last attempted revision.
C4_Witness ==
    /\ ReachedTargetCheck /\ TargetChangedBefore /\ pass.err = <<>>
    /\ pass.result = Immediate
    /\ status.failures > 0
    /\ status.lastAttemptedRevision # Want.version

\* C5: a pass that reaches the reset check with a (chart version, values
\* digest) pair that differs from the last attempted pair in either component
\* has all three failure counters at 0 right after the check.
C5_CounterReset ==
    (pass.reset.reached
        /\ (Want.version # pass.pre.lastAttemptedRevision
              \/ Want.digest # pass.pre.lastAttemptedConfigDigest)) =>
        pass.reset.counters = <<0, 0, 0>>

\* The check has zeroed counters that were not zero, for a new digest only.
C5_Witness ==
    /\ pass.reset.reached
    /\ Want.version = pass.pre.lastAttemptedRevision
    /\ Want.digest # pass.pre.lastAttemptedConfigDigest
    /\ pass.pre.installFailures > 0 /\ pass.pre.failures > 0
    /\ pass.reset.counters = <<0, 0, 0>>

\* The desired pair is the last attempted pair the pass started with.
SamePairBefore ==
    /\ Want.version = pass.pre.lastAttemptedRevision
    /\ Want.digest = pass.pre.lastAttemptedConfigDigest

\* C6: in a pass whose (chart version, values digest) pair equals the last
\* attempted pair, none of installFailures, upgradeFailures, failures
\* decreases; a counter decreases only in a pass that reaches the reset check
\* with a new pair.
C6_CountersAccumulate ==
    pass.patched =>
        /\ SamePairBefore =>
              /\ status.installFailures >= pass.pre.installFailures
              /\ status.upgradeFailures >= pass.pre.upgradeFailures
              /\ status.failures >= pass.pre.failures
              /\ pass.reset.reached => pass.reset.counters = Counters(pass.pre)
        /\ (\/ status.installFailures < pass.pre.installFailures
            \/ status.upgradeFailures < pass.pre.upgradeFailures
            \/ status.failures < pass.pre.failures) =>
              pass.reset.reached /\ ~SamePairBefore

\* A second failure of the same configuration has been added to the first.
C6_Witness ==
    /\ pass.patched /\ SamePairBefore /\ ~pass.patchErr
    /\ pass.pre.installFailures = 1 /\ status.installFailures = 2
    /\ pass.pre.failures = 1 /\ status.failures = 2

\* The pass ran the engine on a release whose latest attempt is a failed
\* upgrade to the pair that is still the desired one.
UpgradeFailedBefore ==
    /\ pass.path = "engine"
    /\ pass.pre.current # NoCurrent
    /\ Len(pass.pre.history) > 0
    /\ Latest(pass.pre.history).kind = "upgrade"
    /\ Latest(pass.pre.history).outcome = "failed"
    /\ Latest(pass.pre.history).version = Want.version
    /\ Latest(pass.pre.history).digest = Want.digest

\* C7: while the upgrades of an unchanged revision and digest fail, each pass
\* below the retry limit attempts the upgrade again and a failure raises
\* upgradeFailures by exactly 1; at the limit the engine moves to RollingBack,
\* Uninstalling or Stalled according to the strategy, attempts no upgrade and
\* leaves upgradeFailures as it is. upgradeFailures never exceeds the limit.
C7_RetryLimit ==
    /\ status.upgradeFailures <= hr.retries
    /\ UpgradeFailedBefore =>
          IF pass.pre.upgradeFailures < hr.retries
          THEN /\ pass.engine = "Upgrading"
               /\ pass.acts = <<"upgrade">>
               /\ (pass.err = <<"upgrade failed">>) =>
                     status.upgradeFailures = pass.pre.upgradeFailures + 1
               /\ (pass.err = <<>>) =>
                     status.upgradeFailures = pass.pre.upgradeFailures
          ELSE /\ pass.pre.upgradeFailures = hr.retries
               /\ pass.engine = CASE hr.strategy = "rollback" -> "RollingBack"
                                  [] hr.strategy = "uninstall" -> "Uninstalling"
                                  [] OTHER -> "Stalled"
               /\ \A i \in 1..Len(pass.acts) : pass.acts[i] # "upgrade"
               /\ status.upgradeFailures = pass.pre.upgradeFailures

\* Two upgrade failures in a row have used up a limit of 2, and the pass
\* after them has stalled the release instead of upgrading again.
C7_Witness ==
    /\ UpgradeFailedBefore /\ hr.retries = 2 /\ hr.strategy = "none"
    /\ pass.pre.upgradeFailures = 2 /\ status.upgradeFailures = 2
    /\ pass.engine = "Stalled"

\* The pass attempted an install or an upgrade.
Deployed ==
    \E i \in 1..Len(pass.acts) : pass.acts[i] \in {"install", "upgrade"}

\* C8, as stated: with strategy none, once installFailures or upgradeFailures
\* has reached the limit, no pass attempts an install or upgrade while the
\* chart version and values digest are the last attempted ones.
C8_StalledUntilNewPair ==
    (/\ pass.patched /\ hr.strategy = "none" /\ SamePairBefore
     /\ (\/ pass.pre.installFailures >= hr.retries
         \/ pass.pre.upgradeFailures >= hr.retries)) =>
        ~Deployed

\* The counter of the action the release needs next has reached the limit:
\* installFailures with no current deployment, upgradeFailures with one.
Exhausted ==
    IF pass.pre.current = NoCurrent
    THEN pass.pre.installFailures >= hr.retries
    ELSE pass.pre.upgradeFailures >= hr.retries

\* C8, amended: with strategy none, once the failure counter of the action
\* the release needs has reached the limit, no pass attempts an install or
\* upgrade while the chart version, the values digest and the target identity
\* are unchanged; a pass that runs the engine runs no action (it finds the
\* release Stalled, or Ready if the latest attempt succeeded), and a pass of a
\* release that is not being deleted leaves the counters, the current
\* deployment and the last attempted pair as they are, so the release stays
\* there. A change of target ends it: the old target is uninstalled and the
\* install that follows has its own counter.
C8_StalledUntilChange ==
    (/\ pass.patched /\ hr.strategy = "none" /\ SamePairBefore
     /\ Exhausted /\ ~TargetChangedBefore) =>
        /\ ~Deployed
        /\ pass.path = "engine" => pass.engine \in {"Stalled", "Ready"} /\ pass.acts = <<>>
        /\ ~hr.deleting =>
              /\ Counters(status) = Counters(pass.pre)
              /\ status.current = pass.pre.current
              /\ status.lastAttemptedRevision = pass.pre.lastAttemptedRevision
              /\ status.lastAttemptedConfigDigest = pass.pre.lastAttemptedConfigDigest

\* A release stalled on its upgrades has been found Stalled again.
C8_Witness ==
    /\ pass.path = "engine" /\ pass.engine = "Stalled" /\ hr.strategy = "none"
    /\ SamePairBefore /\ Exhausted
    /\ pass.pre.current # NoCurrent
    /\ Len(pass.pre.history) > 0 /\ Latest(pass.pre.history).kind = "upgrade"

\* The release was made Ready by the pair and target that are still desired:
\* its current deployment is the desired one, made by the latest attempt, a
\* successful install or upgrade of the last attempted pair.
AlreadyReady ==
    /\ pass.pre.current = Want
    /\ SamePairBefore
    /\ Len(pass.pre.history) > 0
    /\ Latest(pass.pre.history).outcome = "succeeded"
    /\ Latest(pass.pre.history).kind \in {"install", "upgrade"}

\* C9: a pass of a release that is already Ready, with spec, chart version
\* and values digest unchanged and the release not being deleted, runs no
\* Helm action, adds no Attempt to the history and changes none of
\* installFailures, upgradeFailures, failures, lastAttemptedRevision and
\* lastAttemptedConfigDigest; so the next pass finds it Ready again.
C9_ReadyIsIdempotent ==
    (pass.patched /\ ~hr.deleting /\ AlreadyReady) =>
        /\ pass.acts = <<>>
        /\ status.history = pass.pre.history
        /\ status.current = pass.pre.current
        /\ Counters(status) = Counters(pass.pre)
        /\ status.lastAttemptedRevision = pass.pre.lastAttemptedRevision
        /\ status.lastAttemptedConfigDigest = pass.pre.lastAttemptedConfigDigest
        /\ pass.path = "engine" => pass.engine = "Ready"

\* The engine has found a release Ready that had failed once before it
\* succeeded.
C9_Witness ==
    /\ pass.patched /\ ~hr.deleting /\ AlreadyReady /\ ~pass.patchErr
    /\ pass.path = "engine" /\ pass.engine = "Ready"
    /\ pass.pre.failures > 0

\* C10, as stated: a pass that attempts a Helm action leaves the last
\* attempted pair equal to the pair in use, and a pass that attempts none
\* leaves the last attempted pair as it was.
C10_PairOfLastAction ==
    (pass.patched /\ ~pass.patchErr) =>
        IF pass.acts # <<>>
        THEN /\ status.lastAttemptedRevision = Want.version
             /\ status.lastAttemptedConfigDigest = Want.digest
        ELSE /\ status.lastAttemptedRevision = pass.pre.lastAttemptedRevision
             /\ status.lastAttemptedConfigDigest = pass.pre.lastAttemptedConfigDigest

\* C10, amended: the last attempted pair is the pair in use in the latest
\* pass that got past the check for a change of target. Every such pass sets
\* it (and lastAttemptedGeneration), before the config factory is built and
\* the engine invoked: also when the factory fails or the engine attempts
\* nothing. Every install and upgrade is attempted in such a pass. No other
\* pass changes it: not one that stops earlier, and not the uninstall of an old
\* target or of a deleted release.
C10_PairOfLastProceed ==
    pass.patched =>
        /\ (pass.reset.reached /\ ~pass.patchErr) =>
              /\ status.lastAttemptedRevision = Want.version
              /\ status.lastAttemptedConfigDigest = Want.digest
        /\ pass.reset.reached => pass.marks.lastAttemptedGeneration = "generation"
        /\ Deployed => pass.reset.reached
        /\ pass.path \in {"engine", "factoryError"} <=> pass.reset.reached
        /\ ~pass.reset.reached =>
              /\ status.lastAttemptedRevision = pass.pre.lastAttemptedRevision
              /\ status.lastAttemptedConfigDigest = pass.pre.lastAttemptedConfigDigest
              /\ pass.marks.lastAttemptedGeneration = "kept"

\* The config factory failed in a pass with a new chart version: no action
\* was attempted and the last attempted revision is the new one.
C10_Witness ==
    /\ pass.path = "factoryError" /\ ~pass.patchErr /\ pass.acts = <<>>
    /\ pass.pre.lastAttemptedRevision = "1.0.0"
    /\ status.lastAttemptedRevision = "1.1.0"

\* The persisted storageNamespace went from non-empty to empty in the pass.
StorageNamespaceCleared ==
    /\ pass.patched
    /\ pass.pre.storageNamespace # "" /\ status.storageNamespace = ""

\* C11, as stated: storageNamespace goes from non-empty to empty only in a
\* pass where an uninstall succeeded or a change of target was detected; not
\* when the uninstall reported no current release or was not run.
C11_ClearedOnlyBySuccess ==
    StorageNamespaceCleared =>
        \/ pass.uninstall = "ok"
        \/ ReachedTargetCheck /\ TargetChangedBefore

\* C11, amended: storageNamespace goes from non-empty to empty only in a pass
\* that ran the uninstall of an old target (a change of target was detected)
\* or of a deleted release, and whose uninstall succeeded or reported that
\* there is no current release; it is not cleared when that uninstall failed
\* or was not run at all, and by no other pass.
C11_ClearedOnlyByTeardown ==
    StorageNamespaceCleared =>
        /\ pass.uninstall \in {"ok", "noCurrent"}
        /\ pass.acts = <<"uninstall">>
        /\ \/ hr.deleting
           \/ ReachedTargetCheck /\ TargetChangedBefore /\ pass.path = "targetChanged"

\* The uninstall of a deleted release found no current release, and the pass
\* cleared storageNamespace.
C11_Witness ==
    /\ StorageNamespaceCleared
    /\ hr.deleting /\ pass.uninstall = "noCurrent"

\* The pass ran a rollback or an uninstall and the action failed.
FailedCleanup ==
    /\ pass.patched /\ pass.err # <<>>
    /\ \/ pass.acts = <<"rollback">> /\ pass.err[1] = "rollback failed"
       \/ pass.acts = <<"uninstall">> /\ pass.err[1] = "uninstall failed"

\* The next pass that gets as far derives the same rollback or uninstall.
CleanupStillDue ==
    CASE pass.path = "engine" ->
            /\ pass.engine \in {"RollingBack", "Uninstalling"}
            /\ EngineState(status, hr, Want) = pass.engine
      [] pass.path = "targetChangeFailed" -> ReleaseTargetChanged(status, hr, chart.name)
      [] OTHER -> hr.deleting /\ hr.finalizer /\ status.storageNamespace # ""

\* C12: a failed rollback or uninstall leaves installFailures, upgradeFailures
\* and failures as they were and is not terminal: the pass returns an
\* ordinary error, does not mark the release stalled, and the status it
\* leaves makes the next reconciliation attempt the same action again.
C12_FailedCleanupRetried ==
    FailedCleanup =>
        /\ Counters(status) = Counters(pass.pre)
        /\ ~pass.terminal /\ pass.marks.stalled # "True"
        /\ CleanupStillDue

\* A rollback that failed in the previous pass was attempted again, and
\* failed again.
C12_Witness ==
    /\ FailedCleanup /\ pass.acts = <<"rollback">>
    /\ LastIs(pass.pre, "rollback", "failed")

\* The desired revision or values digest is not the one deployed.
PairDiffersFromCurrent ==
    \/ pass.pre.current.version # Want.version
    \/ pass.pre.current.digest # Want.digest

\* C13: an install is issued only by the engine in state Installing, with no
\* current deployment recorded and every dependency ready; a pass that
\* reaches the engine with a current deployment issues no install, and where
\* the desired revision or digest differs from the deployed one and the
\* upgrade budget is not used up, the action is an upgrade.
C13_InstallOnlyWithoutCurrent ==
    /\ (\E i \in 1..Len(pass.acts) : pass.acts[i] = "install") =>
            /\ pass.path = "engine" /\ pass.engine = "Installing"
            /\ pass.pre.current = NoCurrent
            /\ pass.depsReady
            /\ pass.acts = <<"install">>
    /\ (pass.path = "engine" /\ pass.pre.current # NoCurrent /\ PairDiffersFromCurrent) =>
            /\ pass.engine \in {"Upgrading", "RollingBack", "Uninstalling", "Stalled"}
            /\ pass.reset.counters[2] < hr.retries =>
                    pass.engine = "Upgrading" /\ pass.acts = <<"upgrade">>

\* With a deployment recorded and a new desired revision or digest, the
\* engine upgraded.
C13_Witness ==
    /\ pass.path = "engine" /\ pass.pre.current # NoCurrent /\ PairDiffersFromCurrent
    /\ pass.acts = <<"upgrade">>

\* The pass added exactly one Attempt, for the one action it ran, to the
\* history it fetched.
OneNewAttempt ==
    /\ Len(pass.acts) = 1
    /\ Len(status.history) > 0
    /\ Latest(status.history).kind = pass.acts[1]
    /\ status.history = Record(pass.pre.history, Latest(status.history))

\* A pass on a suspended release, or one stopped by a dependency not ready.
SuspendedOrGated ==
    \/ pass.patched /\ hr.suspend /\ ~hr.deleting
    \/ ReachedGate /\ ~pass.depsReady

\* C14, as stated: every reconciliation leaves the status unchanged or
\* produces exactly one new Attempt; a suspended pass and a pass stopped at
\* the dependency gate run no action and leave the status unchanged.
C14_UnchangedOrOneAttempt ==
    /\ pass.patched => (status = pass.pre \/ OneNewAttempt)
    /\ SuspendedOrGated => (pass.acts = <<>> /\ status = pass.pre)

\* C14, amended: every reconciliation runs at most one deployment action and
\* either leaves the status unchanged, or produces exactly one new Attempt,
\* or is a pass that got past the target check and wrote storageNamespace,
\* the counter reset and the last attempted pair without an action being
\* run to its end, or is a teardown that ended with the history truncated; a
\* suspended pass and a pass stopped at the dependency gate run no action and
\* leave history, counters, last attempted pair, current deployment and
\* storageNamespace unchanged.
C14_AtMostOneAttempt ==
    /\ pass.patched =>
        /\ Len(pass.acts) <= 1
        /\ \/ status = pass.pre
           \/ OneNewAttempt
           \/ /\ pass.reset.reached /\ (pass.acts = <<>> \/ pass.retErr = "cancelled")
              /\ status.history = pass.pre.history /\ status.current = pass.pre.current
           \/ /\ pass.path \in {"targetChanged", "deleted", "deleteChartTemplateError"}
              /\ status.history = <<>> /\ status.storageNamespace = ""
    /\ SuspendedOrGated => (pass.acts = <<>> /\ status = pass.pre)

\* A pass on a suspended release that has a deployment and whose chart has a
\* newer version: nothing ran, nothing changed.
C14_Witness ==
    /\ pass.path = "suspended" /\ hr.suspend /\ ~pass.patchErr
    /\ status.current # NoCurrent /\ status.current.version # Want.version
    /\ status = pass.pre

\* C15: a pass that finds access to the chart denied across namespaces marks
\* the release Stalled and not Ready, removes Reconciling, runs no action and
\* changes nothing else in the status, and ends with a terminal error and no
\* requeue request, so that nothing retries it until the spec changes.
C15_AccessDeniedStalls ==
    pass.path = "accessDenied" =>
        /\ pass.marks.stalled = "True" /\ pass.marks.ready = "False"
        /\ pass.marks.reconciling = "removed"
        /\ pass.terminal /\ pass.err # <<>> /\ pass.err[1] = "access denied"
        /\ pass.result = Zero
        /\ pass.acts = <<>> /\ pass.engine = "" /\ ~pass.reset.reached
        /\ pass.observed
        /\ status = pass.pre

\* Access to the chart of a release that has a deployment was denied.
C15_Witness ==
    /\ pass.path = "accessDenied" /\ pass.terminal
    /\ status.current # NoCurrent

\* C16: when the body of the pass and the final patch both fail, the error
\* Reconcile returns holds both, the body's first; when only the patch fails
\* it is the patch error; when only the body fails it is the body's error;
\* neither is dropped and nothing else is returned.
C16_ErrorsAggregated ==
    pass.patched =>
        pass.err = CASE pass.retErr # "" /\ pass.patchErr -> <<pass.retErr, "patch">>
                     [] pass.retErr = "" /\ pass.patchErr -> <<"patch">>
                     [] pass.retErr # "" /\ ~pass.patchErr -> <<pass.retErr>>
                     [] OTHER -> <<>>

\* A deployment action and the status patch failed in the same pass.
C16_Witness ==
    /\ pass.path = "engine" /\ pass.retErr \in {"install failed", "upgrade failed"}
    /\ pass.patchErr
    /\ Len(pass.err) = 2

\* The pass ran an install or an upgrade that failed, and its patch went
\* through.
FailedDeployPersisted ==
    /\ pass.patched /\ ~pass.patchErr
    /\ pass.retErr \in {"install failed", "upgrade failed"}

\* C17: every pass that fetched the object ends with the status patch, on
\* every path, and only a pass that fetched nothing goes without; after a
\* pass whose install or upgrade failed the persisted status holds the failed
\* Attempt, the counters raised by it and the last attempted pair.
C17_PatchedOnEveryPath ==
    /\ pass.path \notin {"none", "getError", "notFound"} => pass.patched
    /\ pass.path \in {"getError", "notFound"} => (~pass.patched /\ status = pass.pre)
    /\ FailedDeployPersisted =>
        /\ LastIs(status, pass.acts[1], "failed")
        /\ status.failures = pass.reset.counters[3] + 1
        /\ status.installFailures =
              pass.reset.counters[1] + (IF pass.acts[1] = "install" THEN 1 ELSE 0)
        /\ status.upgradeFailures =
              pass.reset.counters[2] + (IF pass.acts[1] = "upgrade" THEN 1 ELSE 0)
        /\ status.lastAttemptedRevision = Want.version
        /\ status.lastAttemptedConfigDigest = Want.digest

\* An upgrade failed and the status patched at the end of the pass shows it.
C17_Witness ==
    /\ FailedDeployPersisted /\ pass.acts = <<"upgrade">>
    /\ status.upgradeFailures = pass.pre.upgradeFailures + 1

\* The pass issued an action that was cancelled before it ended.
Cancelled ==
    pass.patched /\ pass.retErr = "cancelled"

\* The state the engine of the next pass derives from a status, after that
\* pass's own counter reset (lines 294-298).
NextStep(st) ==
    LET must == MustResetFailures(st, Want.version, Want.digest)
    IN  EngineState(ResetFailures(Obj(st), must).status, hr, Want)

\* C18: a pass whose action is cancelled leaves the status as it was when the
\* action started: no Attempt is added and the current deployment is the one
\* fetched; counters, last attempted pair and storageNamespace have the
\* values lines 291-304 gave them before the engine was called (or, if the
\* patch fails too, the values fetched); the next pass derives the same step.
C18_CancelLeavesPreActionStatus ==
    Cancelled =>
        /\ Len(pass.acts) = 1 /\ pass.acts[1] = ActionOf(pass.engine)
        /\ status.history = pass.pre.history
        /\ status.current = pass.pre.current
        /\ IF pass.patchErr THEN status = pass.pre
           ELSE /\ Counters(status) = pass.reset.counters
                /\ status.lastAttemptedRevision = Want.version
                /\ status.lastAttemptedConfigDigest = Want.digest
                /\ status.storageNamespace = GetStorageNamespace(hr)
        /\ NextStep(status) = pass.engine

\* An upgrade of a deployed release was cancelled.
C18_Witness ==
    /\ Cancelled /\ ~pass.patchErr
    /\ pass.acts = <<"upgrade">> /\ status.current # NoCurrent

\* Reconcile has returned.
Returned == pass.path # "none"

\* C19, as stated: every return carries exactly one of four hints: none (no
\* error, empty result), the fixed dependency interval (dependency wait, no
\* error), backoff (an error with an empty result), or immediate (finalizer
\* just added, old target torn down).
C19_FourHints ==
    Returned =>
        \/ pass.err = <<>> /\ pass.result = Zero
        \/ pass.err = <<>> /\ pass.result = After("requeueDependency")
                /\ pass.path = "dependencyWait"
        \/ pass.err # <<>> /\ pass.result = Zero
        \/ pass.err = <<>> /\ pass.result = Immediate
                /\ pass.path \in {"addFinalizer", "targetChanged"}

\* C19, amended: every return carries an empty result, an immediate requeue
\* or one fixed interval, and nothing else: immediate exactly when the
\* finalizer was just added or an old target was torn down; the dependency
\* interval exactly on a dependency wait, the chart's interval exactly when
\* the chart is not ready, the release's own interval exactly when the engine
\* returned without error; an error of the body always comes with an empty
\* result, so the only error returned next to a requeue is that of the final
\* patch.
C19_RequeueHints ==
    Returned =>
        /\ pass.result \in {Zero, Immediate, After("requeueDependency"),
                            After("hc.interval"), After("obj.interval")}
        /\ pass.result = Immediate <=> pass.path \in {"addFinalizer", "targetChanged"}
        /\ pass.result = After("requeueDependency") <=> pass.path = "dependencyWait"
        /\ pass.result = After("hc.interval") <=> pass.path = "chartNotReady"
        /\ pass.result = After("obj.interval") <=> (pass.path = "engine" /\ pass.retErr = "")
        /\ pass.retErr # "" => pass.result = Zero
        /\ (pass.err # <<>> /\ pass.result # Zero) => pass.err = <<"patch">>

\* An old target was torn down and the pass asked for an immediate requeue.
C19_Witness ==
    /\ pass.path = "targetChanged" /\ pass.acts = <<"uninstall">>
    /\ pass.result = Immediate /\ pass.err = <<>>

\* C20: after M insertions into a store of capacity N, the store holds the
\* last N attempts inserted if M > N and all M otherwise, in the order of
\* insertion, each as it was inserted.
C20_HistoryBound ==
    LET M == Len(store.inserted)
        N == store.cap
    IN  store.history = IF M > N THEN SubSeq(store.inserted, M - N + 1, M)
                        ELSE store.inserted

\* A store of capacity two or more has evicted at least two attempts and
\* holds attempts that differ.
C20_Witness ==
    /\ store.cap >= 2
    /\ Len(store.inserted) >= store.cap + 2
    /\ Len(store.history) = store.cap
    /\ store.history[1] # store.history[2]

\* The release is being reconciled: it exists, is not deleted, not suspended.
Active == hr.exists /\ ~hr.deleting /\ ~hr.suspend

\* The dependencies the pass that has just returned saw were not all ready.
SawUnreadyDependency == pass.patched /\ ~pass.depsReady

\* C21, as stated: while a dependency is not converged every reconciliation
\* of the release is requeued and runs no action; once all dependencies are
\* Ready and stay so, the release eventually passes the gate and reaches the
\* engine.
C21_EveryPassRequeued ==
    /\ [](SawUnreadyDependency =>
            (pass.acts = <<>> /\ (pass.result # Zero \/ pass.err # <<>>)))
    /\ (Converged ~> pass.path = "engine")

\* C21, amended: while a dependency is not converged, every pass that reaches
\* the dependency gate is requeued after the dependency interval and runs no
\* action; once all dependencies are Ready at their latest generation and
\* stay so, a release that is not deleted or suspended meanwhile eventually
\* passes the gate and reaches the engine.
C21_SoftOrdering ==
    /\ []((ReachedGate /\ ~pass.depsReady) =>
            /\ pass.path = "dependencyWait"
            /\ pass.acts = <<>> /\ pass.engine = ""
            /\ pass.result = After("requeueDependency"))
    /\ ((Converged /\ Active) ~> (pass.path = "engine" \/ ~Active))

\* After waiting at the gate for a dependency, the release has reached the
\* engine with the dependencies converged.
C21_Witness ==
    /\ Converged /\ Active
    /\ pass.path = "engine" /\ pass.depsReady /\ pass.acts = <<"install">>

\* ------------------------------------------------------------------ C22
Min(a, b) == IF a < b THEN a ELSE b

NonRepeating(calls) == \A i \in 1..(Len(calls) - 1) : calls[i] # calls[i + 1]

\* C22: after M Log calls in which no message equals the one before it, on a
\* buffer of size N, the inner log function was called M times, Len() is
\* min(M, N), and String() is the min(M, N) most recent messages, oldest
\* first, one timestamped line each.
C22_RingKeepsMostRecent ==
    NonRepeating(buf.calls) =>
        LET M == Len(buf.calls)
            n == Min(M, buf.size)
        IN  /\ buf.inner = M
            /\ LenOf(buf) = n
            /\ String(buf) = [i \in 1..n |-> Rendered(M - n + i, buf.calls[M - n + i], 0)]

\* TestLogBuffer_String "buffer": size 2 filled with a, b, c reads "b", "c".
C22_Witness ==
    /\ buf.size = 2
    /\ buf.calls = <<"a", "b", "c">>
    /\ buf.inner = 3
    /\ LenOf(buf) = 2
    /\ String(buf) = <<Rendered(2, "b", 0), Rendered(3, "c", 0)>>

\* ------------------------------------------------------------------ C23
\* The runs of equal consecutive messages in calls: message, length, and the
\* times of the first and the last call of the run.
RECURSIVE RunsOf(_)
RunsOf(calls) ==
    IF calls = <<>> THEN <<>>
    ELSE LET n == Len(calls)
             before == RunsOf(SubSeq(calls, 1, n - 1))
         IN  IF n > 1 /\ calls[n - 1] = calls[n]
             THEN [before EXCEPT ![Len(before)].k = @ + 1, ![Len(before)].last = n]
             ELSE Append(before, [msg |-> calls[n], k |-> 1, first |-> n, last |-> n])

\* What the claim says a run reads as: one line; two lines from two calls on,
\* the second saying how many were left out when more than two.
RunLines(r) ==
    IF r.k = 1 THEN <<Rendered(r.first, r.msg, 0)>>
    ELSE <<Rendered(r.first, r.msg, 0), Rendered(r.last, r.msg, r.k - 2)>>

RECURSIVE LinesOfRuns(_)
LinesOfRuns(runs) ==
    IF runs = <<>> THEN <<>> ELSE RunLines(Head(runs)) \o LinesOfRuns(Tail(runs))

\* C23: a run of k >= 2 equal consecutive Log calls reads as two lines, the
\* second saying "(k-2 duplicate line(s) omitted)" when k > 2 and nothing
\* when k = 2; a run takes one slot however long, so the buffer holds the
\* most recent runs up to its size, each read in full.
C23_DuplicatesCollapsed ==
    LET runs == RunsOf(buf.calls)
        n == Min(Len(runs), buf.size)
    IN  /\ LenOf(buf) = n
        /\ String(buf) = LinesOfRuns(SubSeq(runs, Len(runs) - n + 1, Len(runs)))

\* TestLogBuffer_String "duplicate line count": a, b, b, b, c, c on a buffer
\* of the default size.
C23_Witness ==
    /\ buf.size = DefaultBufferSize
    /\ buf.calls = <<"a", "b", "b", "b", "c", "c">>
    /\ LenOf(buf) = 3
    /\ String(buf) = <<Rendered(1, "a", 0), Rendered(2, "b", 0), Rendered(4, "b", 1),
                        Rendered(5, "c", 0), Rendered(6, "c", 0)>>

\* ------------------------------------------------------------------ C24
\* The pass that just returned handled the deletion of a release that is not
\* suspended.
DeletionPass ==
    /\ pass.path \in {"deleted", "deleteFailed", "deleteChartTemplateError"}
    /\ ~hr.suspend

\* Errors of building the client and of the uninstall that are not tolerated.
CleanupErrors == {"rest client", "rest config", "config factory", "uninstall failed"}

\* C24: for a release under deletion that is not suspended, a pass removes the
\* finalizer only if the uninstall succeeded, found no current release, or
\* was skipped without error; any other error of building the client or of
\* the uninstall is returned, the finalizer stays, and the history and the
\* storage namespace are not cleared.
C24_FinalizerAfterCleanup ==
    DeletionPass =>
        /\ (pass.path = "deleted" \/ ~hr.finalizer) =>
               \/ pass.uninstall \in {"ok", "noCurrent"}
               \/ pass.uninstall = "" /\ pass.acts = <<>> /\ pass.retErr = ""
        /\ (pass.uninstall = "err" \/ pass.retErr \in CleanupErrors) =>
               /\ pass.retErr \in CleanupErrors
               /\ pass.err # <<>> /\ pass.err[1] = pass.retErr
               /\ pass.path = "deleteFailed"
               /\ hr.exists /\ hr.finalizer
               /\ status.storageNamespace = pass.pre.storageNamespace
               /\ status.storageNamespace # ""
               /\ pass.pre.history # <<>> => status.history # <<>>

\* A deletion whose uninstall failed, seen after the pass was patched.
C24_Witness ==
    /\ DeletionPass
    /\ pass.uninstall = "err"
    /\ pass.acts = <<"uninstall">>
    /\ ~pass.patchErr
    /\ pass.pre.history # <<>>
    /\ hr.finalizer

\* ------------------------------------------------------------------ C25
\* The pass that just returned handled the deletion of a suspended release.
SuspendedDeletionPass ==
    /\ pass.path \in {"deleted", "deleteFailed", "deleteChartTemplateError", "deleteRequeue"}
    /\ hr.suspend

\* C25: the deletion of a suspended release runs no uninstall and does not
\* touch the chart template: the pass removes the finalizer and returns an
\* empty Result and no error of its own, and leaves the history and the
\* storage namespace of the status as they were.
C25_SuspendedDeletionOnlyFinalizer ==
    SuspendedDeletionPass =>
        /\ pass.path = "deleted"
        /\ pass.acts = <<>> /\ pass.uninstall = "" /\ pass.engine = ""
        /\ pass.result = Zero /\ pass.retErr = ""
        /\ pass.err = IF pass.patchErr THEN <<"patch">> ELSE <<>>
        /\ status.history = pass.pre.history
        /\ status.storageNamespace = pass.pre.storageNamespace
        /\ status.current = pass.pre.current
        /\ ~pass.patchErr => ~hr.finalizer /\ ~hr.exists

\* A release that was installed, then suspended, then deleted: it is gone and
\* its status still names the release it left behind.
C25_Witness ==
    /\ SuspendedDeletionPass
    /\ pass.pre.storageNamespace # ""
    /\ pass.pre.current # NoCurrent
    /\ ~hr.exists

\* ------------------------------------------------------------------ C26
\* The pass that just returned found the release target changed.
TargetChangePass == pass.path \in {"targetChanged", "targetChangeFailed"}

\* C26: when the uninstall of the old target fails with an error other than
\* "no current release", the pass returns that error, does not clear the
\* current release, the history or the storage namespace, does not reset the
\* failure counters and attempts no install; "no current release" is treated
\* like success: the status is cleared and the pass requeues at once.
C26_TargetChangeUninstallError ==
    TargetChangePass =>
        /\ pass.uninstall \notin {"ok", "noCurrent"} <=> pass.path = "targetChangeFailed"
        /\ pass.path = "targetChangeFailed" =>
               /\ pass.retErr \in {"uninstall failed", "config factory"}
               /\ pass.err[1] = pass.retErr
               /\ pass.result = Zero
               /\ status.current = pass.pre.current
               /\ status.storageNamespace = pass.pre.storageNamespace
               /\ status.storageNamespace # ""
               /\ status.history # <<>>
               /\ Counters(status) = Counters(pass.pre)
               /\ ~pass.reset.reached
               /\ pass.engine = ""
               /\ \A i \in 1..Len(pass.acts) : pass.acts[i] = "uninstall"
        /\ pass.uninstall = "noCurrent" =>
               /\ pass.retErr = ""
               /\ pass.result = Immediate
               /\ pass.acts = <<"uninstall">>
               /\ ~pass.patchErr =>
                      /\ status.history = <<>>
                      /\ status.current = NoCurrent
                      /\ status.storageNamespace = ""

\* The old target's uninstall found no current release: the status that
\* named it is cleared.
C26_Witness ==
    /\ TargetChangePass
    /\ pass.uninstall = "noCurrent"
    /\ pass.pre.storageNamespace # ""
    /\ pass.pre.history # <<>>
    /\ status.storageNamespace = ""
    /\ status.history = <<>>

\* ------------------------------------------------------------------ C27
\* The step is a pass that fetched a release which is not under deletion and
\* does not carry the finalizer.
PassWithoutFinalizer ==
    /\ hr.exists /\ ~hr.deleting /\ ~hr.finalizer
    /\ pass' # NoPass /\ pass'.path # "getError"

\* C27: a pass on a release that is not under deletion and lacks the
\* finalizer only adds the finalizer and asks for an immediate requeue, also
\* when the release is suspended: no chart template, dependency, uninstall or
\* engine step is taken and the status is left as it was.
C27_FinalizerFirst ==
    [][PassWithoutFinalizer =>
          /\ pass'.path = "addFinalizer"
          /\ pass'.acts = <<>> /\ pass'.uninstall = "" /\ pass'.engine = ""
          /\ ~pass'.reset.reached
          /\ pass'.result = Immediate /\ pass'.retErr = ""
          /\ pass'.marks = Obj(status).marks
          /\ status' = status
          /\ hr' = IF pass'.patchErr THEN hr ELSE [hr EXCEPT !.finalizer = TRUE]]_vars

\* A suspended release that was given the finalizer by the pass.
C27_Witness ==
    /\ pass.path = "addFinalizer"
    /\ hr.suspend /\ hr.finalizer /\ ~hr.deleting
    /\ pass.result = Immediate

\* ------------------------------------------------------------------ C28
\* C28: the final patch records status.observedGeneration if and only if the
\* pass ended with a terminal error, or with no error and a Result whose
\* Requeue is false (a RequeueAfter is allowed); a pass that ended with an
\* ordinary error or asked for an immediate requeue never advances it.
C28_ObservedGeneration ==
    pass.patched =>
        /\ pass.observed <=>
               \/ pass.terminal /\ pass.retErr # ""
               \/ pass.retErr = "" /\ ~pass.result.requeue
        /\ pass.path \in {"addFinalizer", "targetChanged"} => ~pass.observed
        /\ (pass.retErr # "" /\ pass.path # "accessDenied") => ~pass.observed
        /\ pass.path \in {"suspended", "deleted", "dependencyWait", "chartNotReady",
                           "accessDenied"} => pass.observed

\* A pass that waits for a dependency ends without error and with a
\* RequeueAfter: its patch records the generation as observed.
C28_Witness ==
    /\ pass.path = "dependencyWait"
    /\ pass.result = After("requeueDependency")
    /\ pass.retErr = ""
    /\ pass.observed

\* ------------------------------------------------------------------ C29
\* The pass uninstalled an old target: on a target change or on deletion.
OldTargetUninstall ==
    /\ pass.path \in {"targetChanged", "targetChangeFailed", "deleted", "deleteFailed",
                       "deleteChartTemplateError"}
    /\ pass.acts = <<"uninstall">>

\* C29: the uninstall of an old target runs against the storage namespace an
\* earlier pass recorded in the status; status.storageNamespace is set to the
\* newly desired one only in a pass that detects no target change, after the
\* target check and before the engine.
C29_UninstallAgainstRecordedNamespace ==
    pass.patched =>
        /\ OldTargetUninstall =>
               /\ pass.storage = pass.pre.storageNamespace
               /\ pass.storage # ""
        /\ (status.storageNamespace # pass.pre.storageNamespace /\ status.storageNamespace # "") =>
               /\ pass.reset.reached
               /\ ~ReleaseTargetChanged(pass.pre, hr, chart.name)
               /\ status.storageNamespace = GetStorageNamespace(hr)
        /\ (pass.path = "factoryError" /\ ~pass.patchErr) =>
               /\ pass.engine = ""
               /\ status.storageNamespace = GetStorageNamespace(hr)

\* The target namespace was changed: the old release is uninstalled from the
\* namespace the status names, not from the one now desired.
C29_Witness ==
    /\ OldTargetUninstall
    /\ pass.path = "targetChanged"
    /\ pass.storage = pass.pre.storageNamespace
    /\ pass.storage # GetStorageNamespace(hr)

\* ------------------------------------------------------------------ C30
\* The pass is one of reconcileRelease (the release is not under deletion,
\* carries the finalizer and is not suspended) and got its HelmChart.
GotHelmChart ==
    pass.path \in {"chartNotReady", "getterError", "targetChanged", "targetChangeFailed",
                   "factoryError", "engine"}

\* C30: when the HelmChart of the release is stale, not Ready or without an
\* artifact, the pass runs no uninstall, install or upgrade, leaves the
\* failure counters, the last attempted revision and digest and the storage
\* namespace as they were, marks the release not Ready, and ends without
\* error, to be requeued after the interval of the chart.
C30_ChartNotReady ==
    /\ (GotHelmChart /\ ~pass.chartReady) => pass.path = "chartNotReady"
    /\ pass.path = "chartNotReady" =>
           /\ ~pass.chartReady
           /\ pass.acts = <<>> /\ pass.uninstall = "" /\ pass.engine = ""
           /\ ~pass.reset.reached
           /\ status = pass.pre
           /\ pass.marks.lastAttemptedGeneration = "kept"
           /\ pass.marks.ready = "False"
           /\ pass.retErr = ""
           /\ pass.result = After("hc.interval")

\* A deployed release whose chart is being rebuilt: the pass waits.
C30_Witness ==
    /\ pass.path = "chartNotReady"
    /\ ~pass.chartReady /\ ~pass.patchErr
    /\ pass.pre.current # NoCurrent
    /\ pass.pre.storageNamespace # ""

\* ------------------------------------------------------------------ C31
\* The releases indexed to the chart of the event, and those of them whose
\* last attempted revision is not the revision of the chart's artifact.
IndexedTo(hc) ==
    {i \in DOMAIN watch.items : SourceIndexKey(watch.items[i]) = <<hc.namespace, hc.name>>}

StaleFor(hc) ==
    {i \in IndexedTo(hc) :
        hc.artifact.set /\ watch.items[i].status.lastAttemptedRevision # hc.artifact.revision}

Enqueued == {watch.reqs[k] : k \in DOMAIN watch.reqs}

EnqueuedExactlyStale ==
    /\ Enqueued = {<<Namespace, watch.items[i].name>> : i \in StaleFor(watch.hc)}
    /\ ~watch.hc.artifact.set => watch.reqs = <<>>
    /\ \A i \in IndexedTo(watch.hc) :
          (watch.hc.artifact.set
             /\ watch.items[i].status.lastAttemptedRevision = watch.hc.artifact.revision)
          => <<Namespace, watch.items[i].name>> \notin Enqueued

\* C31 as stated: a HelmChart event enqueues exactly the releases indexed to
\* the chart whose last attempted revision is not the artifact's, nothing
\* when the chart has no artifact, and never a release that attempted the
\* artifact's revision.
C31_EnqueuesExactlyStale == watch.handled => EnqueuedExactlyStale

\* C31: the same when the releases could be listed, each request made once;
\* when listing them fails nothing is enqueued.
C31_EnqueuesStaleWhenListed ==
    watch.handled =>
        /\ ~watch.listErr =>
               /\ EnqueuedExactlyStale
               /\ Len(watch.reqs) = Cardinality(Enqueued)
        /\ watch.listErr => watch.reqs = <<>>

\* Two releases of one chart, one that attempted the new revision and one
\* that did not: only the latter is enqueued.
C31_Witness ==
    /\ watch.handled /\ ~watch.listErr
    /\ Cardinality(IndexedTo(watch.hc)) = 2
    /\ Len(watch.reqs) = 1
    /\ watch.hc.artifact.set

====
